---- MODULE Spec2Model ----
(***************************************************************************)
(* A model of the conversion core of src-tauri/src/lib.rs: the plain-text  *)
(* and Markdown converters that build the TipTap document tree, the        *)
(* chapter splitter, the title deduplicator and the chapter import/delete  *)
(* commands working on project.json, and the exporters: the RTF renderer   *)
(* with export_project, and the XHTML renderer, the package builders and   *)
(* export_epub.                                                            *)
(*                                                                         *)
(* Strings are sequences of one-character strings, so that trimming,       *)
(* splitting, lower-casing and number formatting are computed, not         *)
(* assumed.  A JSON value is a record; Option<T> is a record with a        *)
(* `some` flag.  Text the exporters produce is a sequence of pieces: a     *)
(* literal, escaped text, or a format template with its arguments.         *)
(***************************************************************************)
EXTENDS Integers, Sequences, FiniteSets, TLC

VARIABLES
    pc,                  \* which operation is running, and where it stands
    \* ---- pulldown_cmark::Parser (the event source)
    open,                \* the parser's stack of open tags
    event,               \* the loop variable `event`: the event being handled
    nEvents,             \* start and leaf events emitted so far
    \* ---- markdown_to_tiptap_json locals
    content,
    current_paragraph,
    in_strong,
    in_em,
    heading_level,
    heading_content,
    list_stack,
    list_item_content,
    blockquote_content,
    in_blockquote,
    code_block_lang,
    code_block_content,
    in_code_block,
    \* ---- text_to_tiptap_json argument, and the document either converter returns
    text,
    doc,
    \* ---- split_by_delimiter arguments and return value
    split_content,
    delimiter,
    extract_titles,
    sections,
    \* ---- make_unique_title arguments (locals of import_chapters) and return value
    raw_title,
    used_titles,
    section_title,
    \* ---- the project directory: project.json and chapters/<id>.json
    project_json,
    chapter_files,
    \* ---- import_chapters arguments and locals
    use_filename_as_title,
    chapter_delimiter,
    extract_title_from_delimiter,
    files_done,          \* how many of file_paths the loop has gone through
    project_data,
    next_id,
    imported_chapters,
    \* ---- history: the ids the last step gave to chapters, the largest id ever
    \* given to a chapter, and the calls made
    last_assigned,
    max_assigned,
    n_calls,
    \* ---- the assets directory of the project
    assets,
    \* ---- export_project / export_epub argument and locals
    chapter_ids,
    ids_to_export,
    chapters,
    all_image_names,
    zip,                 \* the entries written to the archive, in order
    rtf_content,         \* the pieces pushed onto rtf_content, in order
    filename,
    \* ---- escape_xml, render_inline and render_blocks: argument and return value
    xml_s,
    items,
    nodes,
    out,
    \* ---- the directories of the project that exist, and the stored commands'
    \* arguments and return values
    dirs,
    result,              \* "none" while no command has returned, then "Ok" or "Err"
    json_content,        \* save_chapter argument
    raw_name,            \* copy_asset_and_encode: file name of src_path
    final_name,          \* copy_asset_and_encode: the name returned
    export_file,         \* the file at export_path
    calls                \* the locals of overlapping import_chapters invocations

parserVars == <<open, event, nEvents>>
mdVars == <<content, current_paragraph, in_strong, in_em, heading_level,
            heading_content, list_stack, list_item_content, blockquote_content,
            in_blockquote, code_block_lang, code_block_content, in_code_block>>
convVars == <<text, doc>>
splitVars == <<split_content, delimiter, extract_titles, sections>>
titleVars == <<raw_title, used_titles, section_title>>
diskVars == <<project_json, chapter_files>>
importArgs == <<use_filename_as_title, chapter_delimiter, extract_title_from_delimiter>>
importLocals == <<files_done, project_data, next_id, imported_chapters>>
historyVars == <<last_assigned, max_assigned, n_calls>>
projectVars == <<diskVars, importArgs, importLocals, historyVars>>
exportVars == <<assets, chapter_ids, ids_to_export, chapters, all_image_names, zip,
                rtf_content, filename>>
xhtmlVars == <<xml_s, items, nodes, out>>
outputVars == <<exportVars, xhtmlVars>>
storeVars == <<dirs, result, json_content, raw_name, final_name, export_file, calls>>
\* everything the Markdown converter does not touch
notMdVars == <<convVars, splitVars, titleVars, projectVars, outputVars, storeVars>>
vars == <<pc, parserVars, mdVars, convVars, splitVars, titleVars, projectVars,
          outputVars, storeVars>>

----------------------------------------------------------------------------
(* Bounds of the model *)

\* start and leaf events in one Markdown event stream
MaxEvents == 5
\* nesting depth of the parser's open tags
MaxDepth == 4
\* length of the plain text handed to text_to_tiptap_json
MaxTextLen == 5
\* lines in the content handed to split_by_delimiter
MaxLines == 4
\* largest "(n)" suffix among the titles already in use
MaxSuffix == 3
\* calls of import_chapters and delete_chapter on the project
MaxCalls == 2
\* files in the file_paths of one call of import_chapters
MaxFiles == 2
\* largest chapter id an import may reach
MaxId == 4
\* escape_xml is applied to strings of at most this many characters
MaxXmlLen == 5
\* marks on the run handed to render_inline
MaxMarks == 3
\* largest level attribute of a heading handed to render_blocks
MaxLevel == 9
\* largest chapter id in the projects handed to the exports
MaxChapterId == 3
\* length of the chapter_ids handed to the exports
MaxRequest == 2
\* commands called on one project directory
MaxStoreCalls == 3
\* largest chapter id handed to save_chapter and rename_chapter
MaxStoreId == 2
\* calls of copy_asset_and_encode on one project
MaxAssetCalls == 3

----------------------------------------------------------------------------
(* Strings: str::trim, str::split, str::lines, join, to_lowercase, format! *)

Range(f) == {f[i] : i \in DOMAIN f}

None == [some |-> FALSE, val |-> <<>>]
Some(v) == [some |-> TRUE, val |-> v]

\* every string over alphabet `cs` of length at most n
StringsUpTo(cs, n) == UNION {[1..k -> cs] : k \in 0..n}

IsWhitespace(c) == c \in {" ", "\n", "\t", "\r"}

RECURSIVE TrimStart(_)
TrimStart(s) ==
    IF s = <<>> THEN s
    ELSE IF IsWhitespace(Head(s)) THEN TrimStart(Tail(s)) ELSE s

RECURSIVE TrimEnd(_)
TrimEnd(s) ==
    IF s = <<>> THEN s
    ELSE IF IsWhitespace(s[Len(s)]) THEN TrimEnd(SubSeq(s, 1, Len(s) - 1)) ELSE s

Trim(s) == TrimEnd(TrimStart(s))

StartsWith(s, p) == Len(p) <= Len(s) /\ SubSeq(s, 1, Len(p)) = p

\* str::split(pat): the pieces between the non-overlapping matches of pat,
\* found left to right; `cur` is the piece being read
RECURSIVE SplitFrom(_, _, _)
SplitFrom(s, pat, cur) ==
    IF s = <<>> THEN <<cur>>
    ELSE IF StartsWith(s, pat)
         THEN <<cur>> \o SplitFrom(SubSeq(s, Len(pat) + 1, Len(s)), pat, <<>>)
         ELSE SplitFrom(Tail(s), pat, Append(cur, Head(s)))

Split(s, pat) == SplitFrom(s, pat, <<>>)

RECURSIVE Join(_, _)
Join(ss, sep) ==
    IF ss = <<>> THEN <<>>
    ELSE IF Len(ss) = 1 THEN ss[1]
    ELSE ss[1] \o sep \o Join(Tail(ss), sep)

\* str::lines: the pieces between "\n"; a final empty piece is no line, and a
\* "\r" before the "\n" belongs to the line ending
StripCr(line) ==
    IF line # <<>> /\ line[Len(line)] = "\r" THEN SubSeq(line, 1, Len(line) - 1) ELSE line

Lines(s) ==
    LET pieces == Split(s, <<"\n">>)
        n == Len(pieces)
        last == IF pieces[n] = <<>> THEN <<>> ELSE <<pieces[n]>>
    IN  [i \in 1..(n - 1) |-> StripCr(pieces[i])] \o last

\* char::to_lowercase on the letters the model uses
UpperCase == <<"A", "B", "C">>
LowerCase == <<"a", "b", "c">>
LowerChar(c) ==
    IF \E i \in 1..Len(UpperCase) : UpperCase[i] = c
    THEN LowerCase[CHOOSE i \in 1..Len(UpperCase) : UpperCase[i] = c]
    ELSE c
ToLowercase(s) == [i \in 1..Len(s) |-> LowerChar(s[i])]

\* Display of an unsigned integer: its decimal digits
Digits == <<"0", "1", "2", "3", "4", "5", "6", "7", "8", "9">>
RECURSIVE FormatNat(_)
FormatNat(n) ==
    IF n < 10 THEN <<Digits[n + 1]>>
    ELSE FormatNat(n \div 10) \o <<Digits[(n % 10) + 1]>>

\* format!("Chapter {}", n)
ChapterTitle(n) == <<"C", "h", "a", "p", "t", "e", "r", " ">> \o FormatNat(n)

\* format!("{} ({})", title, n)
NumberedTitle(title, n) == title \o <<" ", "(">> \o FormatNat(n) \o <<")">>

----------------------------------------------------------------------------
(* serde_json::json! values *)

\* a text node has a "marks" key only when it carries marks
TextNode(t, marks) ==
    IF marks = <<>> THEN [type |-> "text", text |-> t]
    ELSE [type |-> "text", text |-> t, marks |-> marks]
MarksOf(node) == IF "marks" \in DOMAIN node THEN node.marks ELSE <<>>
HasMark(node, m) == \E i \in 1..Len(MarksOf(node)) : MarksOf(node)[i] = [type |-> m]
Mark(m) == [type |-> m]
Block(type, children) == [type |-> type, content |-> children]
EmptyParagraph == Block("paragraph", <<>>)
Doc(children) == [type |-> "doc", content |-> children]
NoDoc == [type |-> "none", content |-> <<>>]

----------------------------------------------------------------------------
(* text_to_tiptap_json *)

\* faulty variant: the run holds the paragraph as split, not trimmed
RECURSIVE TextParagraphsUntrimmed(_)
TextParagraphsUntrimmed(paragraphs) ==
    IF paragraphs = <<>> THEN <<>>
    ELSE LET para == Head(paragraphs)
             rest == TextParagraphsUntrimmed(Tail(paragraphs))
         IN  IF Trim(para) # <<>>
             THEN <<Block("paragraph", <<TextNode(para, <<>>)>>)>> \o rest
             ELSE rest

RECURSIVE TextParagraphs(_)
TextParagraphs(paragraphs) ==
    IF paragraphs = <<>> THEN <<>>
    ELSE LET para == Head(paragraphs)
             rest == TextParagraphs(Tail(paragraphs))
         IN  IF Trim(para) # <<>>
             THEN <<Block("paragraph", <<TextNode(Trim(para), <<>>)>>)>> \o rest
             ELSE rest

OrEmptyParagraph(blocks) == IF blocks = <<>> THEN <<EmptyParagraph>> ELSE blocks

TextToTiptapJson(t) ==
    Doc(OrEmptyParagraph(TextParagraphs(Split(t, <<"\n", "\n">>))))

----------------------------------------------------------------------------
(* pulldown_cmark::Parser: the events it may emit next, given its open tags *)

Ev(kind, tag) == [kind |-> kind, tag |-> tag]
NoEvent == Ev("None", "")

Top == IF open = <<>> THEN "Doc" ELSE open[Len(open)]
\* where a block may start: the document, a block quote, a list item
BlockCtx == Top \in {"Doc", "BlockQuote", "Item"}
\* where inline content may appear; a tight list item holds it unwrapped
InlineCtx == Top \in {"Paragraph", "Heading", "Strong", "Emphasis", "Item"}

CanStart(tag) ==
    /\ pc = "md_loop"
    /\ nEvents < MaxEvents
    /\ Len(open) < MaxDepth
    /\ CASE tag \in {"Paragraph", "Heading", "CodeBlock", "List", "BlockQuote"} -> BlockCtx
         [] tag = "Item" -> Top = "List"
         [] tag \in {"Strong", "Emphasis"} -> InlineCtx
         [] OTHER -> FALSE

\* a paragraph or a span is never empty; a list holds at least one item
CanEnd(tag) ==
    /\ pc = "md_loop"
    /\ Top = tag
    /\ tag \in {"Paragraph", "Strong", "Emphasis"} => event # Ev("Start", tag)
    /\ tag = "List" => event = Ev("End", "Item")

CanLeaf(ctx) ==
    /\ pc = "md_loop"
    /\ nEvents < MaxEvents
    /\ ctx

EmitStart(tag) ==
    /\ open' = Append(open, tag)
    /\ event' = Ev("Start", tag)
    /\ nEvents' = nEvents + 1

EmitEnd(tag) ==
    /\ open' = SubSeq(open, 1, Len(open) - 1)
    /\ event' = Ev("End", tag)
    /\ nEvents' = nEvents

EmitLeaf(kind) ==
    /\ open' = open
    /\ event' = Ev(kind, "")
    /\ nEvents' = nEvents + 1

\* the payloads of the events
HeadingLevels == {1, 3}
CodeBlockKinds == {[fenced |-> TRUE, lang |-> <<"r", "s">>], [fenced |-> FALSE, lang |-> <<>>]}
LeafText == <<"x">>

----------------------------------------------------------------------------
(* markdown_to_tiptap_json: one action per arm of the match on the event *)

MdLocalsInit ==
    /\ content = <<>>
    /\ current_paragraph = None
    /\ in_strong = FALSE
    /\ in_em = FALSE
    /\ heading_level = 0
    /\ heading_content = <<>>
    /\ list_stack = <<>>
    /\ list_item_content = None
    /\ blockquote_content = <<>>
    /\ in_blockquote = FALSE
    /\ code_block_lang = <<>>
    /\ code_block_content = <<>>
    /\ in_code_block = FALSE

ParserInit == open = <<>> /\ event = NoEvent /\ nEvents = 0

\* Option::is_none, then Some(Vec::new())
OpenIfNone(opt) == IF opt.some THEN opt ELSE Some(<<>>)

StartHeading ==
    /\ CanStart("Heading")
    /\ EmitStart("Heading")
    /\ \E level \in HeadingLevels : heading_level' = level
    /\ heading_content' = <<>>
    /\ UNCHANGED <<pc, content, current_paragraph, in_strong, in_em, list_stack,
                   list_item_content, blockquote_content, in_blockquote,
                   code_block_lang, code_block_content, in_code_block, notMdVars>>

StartParagraph ==
    /\ CanStart("Paragraph")
    /\ EmitStart("Paragraph")
    /\ current_paragraph' = OpenIfNone(current_paragraph)
    /\ UNCHANGED <<pc, content, in_strong, in_em, heading_level, heading_content,
                   list_stack, list_item_content, blockquote_content, in_blockquote,
                   code_block_lang, code_block_content, in_code_block, notMdVars>>

StartStrong ==
    /\ CanStart("Strong")
    /\ EmitStart("Strong")
    /\ in_strong' = TRUE
    /\ UNCHANGED <<pc, content, current_paragraph, in_em, heading_level,
                   heading_content, list_stack, list_item_content, blockquote_content,
                   in_blockquote, code_block_lang, code_block_content, in_code_block,
                   notMdVars>>

StartEmphasis ==
    /\ CanStart("Emphasis")
    /\ EmitStart("Emphasis")
    /\ in_em' = TRUE
    /\ UNCHANGED <<pc, content, current_paragraph, in_strong, heading_level,
                   heading_content, list_stack, list_item_content, blockquote_content,
                   in_blockquote, code_block_lang, code_block_content, in_code_block,
                   notMdVars>>

StartCodeBlock ==
    /\ CanStart("CodeBlock")
    /\ EmitStart("CodeBlock")
    /\ in_code_block' = TRUE
    /\ code_block_content' = <<>>
    /\ \E kind \in CodeBlockKinds :
          code_block_lang' = IF kind.fenced THEN kind.lang ELSE <<>>
    /\ UNCHANGED <<pc, content, current_paragraph, in_strong, in_em, heading_level,
                   heading_content, list_stack, list_item_content, blockquote_content,
                   in_blockquote, notMdVars>>

StartList ==
    /\ CanStart("List")
    /\ EmitStart("List")
    /\ \E ordered \in BOOLEAN :
          list_stack' = Append(list_stack,
                               [type |-> IF ordered THEN "ordered" ELSE "bullet",
                                items |-> <<>>])
    /\ UNCHANGED <<pc, content, current_paragraph, in_strong, in_em, heading_level,
                   heading_content, list_item_content, blockquote_content,
                   in_blockquote, code_block_lang, code_block_content, in_code_block,
                   notMdVars>>

StartItem ==
    /\ CanStart("Item")
    /\ EmitStart("Item")
    /\ list_item_content' = Some(<<>>)
    /\ current_paragraph' = OpenIfNone(current_paragraph)
    /\ UNCHANGED <<pc, content, in_strong, in_em, heading_level, heading_content,
                   list_stack, blockquote_content, in_blockquote, code_block_lang,
                   code_block_content, in_code_block, notMdVars>>

StartBlockQuote ==
    /\ CanStart("BlockQuote")
    /\ EmitStart("BlockQuote")
    /\ in_blockquote' = TRUE
    /\ blockquote_content' = <<>>
    /\ UNCHANGED <<pc, content, current_paragraph, in_strong, in_em, heading_level,
                   heading_content, list_stack, list_item_content, code_block_lang,
                   code_block_content, in_code_block, notMdVars>>

HeadingNode == [type |-> "heading", attrs |-> [level |-> heading_level],
                content |-> heading_content]

EndHeading ==
    /\ CanEnd("Heading")
    /\ EmitEnd("Heading")
    /\ IF heading_level > 0
       THEN /\ content' = Append(content, HeadingNode)
            /\ heading_content' = <<>>
            /\ heading_level' = 0
       ELSE UNCHANGED <<content, heading_content, heading_level>>
    /\ UNCHANGED <<pc, current_paragraph, in_strong, in_em, list_stack,
                   list_item_content, blockquote_content, in_blockquote,
                   code_block_lang, code_block_content, in_code_block, notMdVars>>

\* where TagEnd::Paragraph puts the paragraph it took: the block quote, the
\* pending list item, or the root (an empty one is dropped there)
ParagraphPlace(para) ==
    IF in_blockquote THEN "blockquote"
    ELSE IF list_stack # <<>> THEN (IF list_item_content.some THEN "item" ELSE "dropped")
    ELSE IF para # <<>> THEN "root"
    ELSE "dropped"

EndParagraph ==
    /\ CanEnd("Paragraph")
    /\ EmitEnd("Paragraph")
    /\ current_paragraph' = None
    /\ LET para == current_paragraph.val
           node == Block("paragraph", para)
           place == IF current_paragraph.some THEN ParagraphPlace(para) ELSE "dropped"
       IN  /\ blockquote_content' =
                 IF place = "blockquote" THEN Append(blockquote_content, node)
                 ELSE blockquote_content
           /\ list_item_content' =
                 IF place = "item" THEN Some(Append(list_item_content.val, node))
                 ELSE list_item_content
           /\ content' = IF place = "root" THEN Append(content, node) ELSE content
    /\ UNCHANGED <<pc, in_strong, in_em, heading_level, heading_content, list_stack,
                   in_blockquote, code_block_lang, code_block_content, in_code_block,
                   notMdVars>>

EndStrong ==
    /\ CanEnd("Strong")
    /\ EmitEnd("Strong")
    /\ in_strong' = FALSE
    /\ UNCHANGED <<pc, content, current_paragraph, in_em, heading_level,
                   heading_content, list_stack, list_item_content, blockquote_content,
                   in_blockquote, code_block_lang, code_block_content, in_code_block,
                   notMdVars>>

EndEmphasis ==
    /\ CanEnd("Emphasis")
    /\ EmitEnd("Emphasis")
    /\ in_em' = FALSE
    /\ UNCHANGED <<pc, content, current_paragraph, in_strong, heading_level,
                   heading_content, list_stack, list_item_content, blockquote_content,
                   in_blockquote, code_block_lang, code_block_content, in_code_block,
                   notMdVars>>

CodeBlockNode ==
    [type |-> "codeBlock",
     attrs |-> [language |-> IF code_block_lang = <<>> THEN None ELSE Some(code_block_lang)],
     content |-> <<[type |-> "text", text |-> code_block_content]>>]

EndCodeBlock ==
    /\ CanEnd("CodeBlock")
    /\ EmitEnd("CodeBlock")
    /\ in_code_block' = FALSE
    /\ content' = Append(content, CodeBlockNode)
    /\ code_block_content' = <<>>
    /\ code_block_lang' = <<>>
    /\ UNCHANGED <<pc, current_paragraph, in_strong, in_em, heading_level,
                   heading_content, list_stack, list_item_content, blockquote_content,
                   in_blockquote, notMdVars>>

ListNode(list) ==
    Block(IF list.type = "ordered" THEN "orderedList" ELSE "bulletList", list.items)

\* faulty variant: the list node is pushed without the check that it has items
ListEndContentUnchecked(list) == Append(content, ListNode(list))

\* the root after TagEnd::List popped `list`
ListEndContent(list) ==
    IF list.items # <<>> THEN Append(content, ListNode(list)) ELSE content

EndList ==
    /\ CanEnd("List")
    /\ EmitEnd("List")
    /\ IF list_stack # <<>>
       THEN /\ list_stack' = SubSeq(list_stack, 1, Len(list_stack) - 1)
            /\ content' = ListEndContent(list_stack[Len(list_stack)])
       ELSE UNCHANGED <<list_stack, content>>
    /\ UNCHANGED <<pc, current_paragraph, in_strong, in_em, heading_level,
                   heading_content, list_item_content, blockquote_content,
                   in_blockquote, code_block_lang, code_block_content, in_code_block,
                   notMdVars>>

\* the pending item after TagEnd::Item flushed the open paragraph into it
FlushedItem ==
    IF current_paragraph.some /\ current_paragraph.val # <<>> /\ list_item_content.some
    THEN Some(Append(list_item_content.val, Block("paragraph", current_paragraph.val)))
    ELSE list_item_content

ListItemNode(item_content) ==
    IF item_content = <<>> THEN Block("listItem", <<EmptyParagraph>>)
    ELSE Block("listItem", item_content)

EndItem ==
    /\ CanEnd("Item")
    /\ EmitEnd("Item")
    /\ current_paragraph' = None
    /\ list_item_content' = None
    /\ list_stack' =
          IF FlushedItem.some /\ list_stack # <<>>
          THEN [list_stack EXCEPT ![Len(list_stack)].items =
                                      Append(@, ListItemNode(FlushedItem.val))]
          ELSE list_stack
    /\ UNCHANGED <<pc, content, in_strong, in_em, heading_level, heading_content,
                   blockquote_content, in_blockquote, code_block_lang,
                   code_block_content, in_code_block, notMdVars>>

EndBlockQuote ==
    /\ CanEnd("BlockQuote")
    /\ EmitEnd("BlockQuote")
    /\ in_blockquote' = FALSE
    /\ IF blockquote_content # <<>>
       THEN /\ content' = Append(content, Block("blockquote", blockquote_content))
            /\ blockquote_content' = <<>>
       ELSE UNCHANGED <<content, blockquote_content>>
    /\ UNCHANGED <<pc, current_paragraph, in_strong, in_em, heading_level,
                   heading_content, list_stack, list_item_content, code_block_lang,
                   code_block_content, in_code_block, notMdVars>>

\* the marks Event::Text gives its run
TextMarks ==
    (IF in_strong THEN <<Mark("bold")>> ELSE <<>>)
       \o (IF in_em THEN <<Mark("italic")>> ELSE <<>>)

\* the marks Event::Code gives its run
CodeMarks == <<Mark("code")>>

\* the buffer a leaf goes to
LeafPlace ==
    IF in_code_block THEN "code_block"
    ELSE IF heading_level > 0 THEN "heading"
    ELSE IF current_paragraph.some THEN "paragraph"
    ELSE "dropped"

RouteLeaf(t, text_node) ==
    /\ code_block_content' =
          IF LeafPlace = "code_block" THEN code_block_content \o t ELSE code_block_content
    /\ heading_content' =
          IF LeafPlace = "heading" THEN Append(heading_content, text_node)
          ELSE heading_content
    /\ current_paragraph' =
          IF LeafPlace = "paragraph" THEN Some(Append(current_paragraph.val, text_node))
          ELSE current_paragraph

TextEvent ==
    /\ CanLeaf(InlineCtx \/ Top = "CodeBlock")
    /\ EmitLeaf("Text")
    /\ RouteLeaf(LeafText, TextNode(LeafText, TextMarks))
    /\ UNCHANGED <<pc, content, in_strong, in_em, heading_level, list_stack,
                   list_item_content, blockquote_content, in_blockquote,
                   code_block_lang, in_code_block, notMdVars>>

CodeEvent ==
    /\ CanLeaf(InlineCtx)
    /\ EmitLeaf("Code")
    /\ RouteLeaf(LeafText, TextNode(LeafText, CodeMarks))
    /\ UNCHANGED <<pc, content, in_strong, in_em, heading_level, list_stack,
                   list_item_content, blockquote_content, in_blockquote,
                   code_block_lang, in_code_block, notMdVars>>

\* faulty variant: the break becomes a run of its own
BreakParagraphAsRun ==
    IF current_paragraph.some /\ current_paragraph.val # <<>>
    THEN Some(Append(current_paragraph.val, TextNode(<<" ">>, <<>>)))
    ELSE current_paragraph

\* s.push(' ') on the text of the last run of the open paragraph
BreakParagraph ==
    IF current_paragraph.some /\ current_paragraph.val # <<>>
    THEN LET para == current_paragraph.val
         IN  Some([para EXCEPT ![Len(para)].text = Append(@, " ")])
    ELSE current_paragraph

SoftBreak ==
    /\ CanLeaf(InlineCtx)
    /\ EmitLeaf("SoftBreak")
    /\ current_paragraph' = BreakParagraph
    /\ UNCHANGED <<pc, content, in_strong, in_em, heading_level, heading_content,
                   list_stack, list_item_content, blockquote_content, in_blockquote,
                   code_block_lang, code_block_content, in_code_block, notMdVars>>

HardBreak ==
    /\ CanLeaf(InlineCtx)
    /\ EmitLeaf("HardBreak")
    /\ current_paragraph' = BreakParagraph
    /\ UNCHANGED <<pc, content, in_strong, in_em, heading_level, heading_content,
                   list_stack, list_item_content, blockquote_content, in_blockquote,
                   code_block_lang, code_block_content, in_code_block, notMdVars>>

\* the parser is exhausted: the loop ends and the document is returned
MdReturn ==
    /\ pc = "md_loop"
    /\ open = <<>>
    /\ pc' = "md_done"
    /\ doc' = Doc(OrEmptyParagraph(content))
    /\ UNCHANGED <<parserVars, mdVars, outputVars, storeVars, text, splitVars, titleVars, projectVars>>

ConvIdle == text = <<>> /\ doc = NoDoc
SplitIdle ==
    /\ split_content = <<>>
    /\ delimiter = <<>>
    /\ extract_titles = FALSE
    /\ sections = <<>>
TitleIdle == raw_title = <<>> /\ used_titles = {} /\ section_title = <<>>
ImportIdle ==
    /\ use_filename_as_title = FALSE
    /\ chapter_delimiter = None
    /\ extract_title_from_delimiter = FALSE
    /\ files_done = 0
    /\ project_data = None
    /\ next_id = 0
    /\ imported_chapters = <<>>
ExportIdle ==
    /\ assets = {}
    /\ chapter_ids = <<>>
    /\ ids_to_export = <<>>
    /\ chapters = <<>>
    /\ all_image_names = <<>>
    /\ zip = <<>>
    /\ rtf_content = <<>>
    /\ filename = <<>>
XhtmlIdle == xml_s = <<>> /\ items = <<>> /\ nodes = <<>> /\ out = <<>>
StoreIdle ==
    /\ dirs = {}
    /\ result = "none"
    /\ json_content = <<>>
    /\ raw_name = <<>>
    /\ final_name = <<>>
    /\ export_file = None
    /\ calls = <<>>
ProjectIdle ==
    /\ project_json = None
    /\ chapter_files = <<>>
    /\ ImportIdle
    /\ last_assigned = <<>>
    /\ max_assigned = 0
    /\ n_calls = 0

MdInit ==
    /\ pc = "md_loop"
    /\ ParserInit
    /\ MdLocalsInit
    /\ ConvIdle
    /\ SplitIdle
    /\ TitleIdle
    /\ ProjectIdle
    /\ ExportIdle
    /\ XhtmlIdle
    /\ StoreIdle

MdNext ==
    \/ StartHeading \/ StartParagraph \/ StartStrong \/ StartEmphasis
    \/ StartCodeBlock \/ StartList \/ StartItem \/ StartBlockQuote
    \/ EndHeading \/ EndParagraph \/ EndStrong \/ EndEmphasis
    \/ EndCodeBlock \/ EndList \/ EndItem \/ EndBlockQuote
    \/ TextEvent \/ CodeEvent \/ SoftBreak \/ HardBreak
    \/ MdReturn

SpecMd == MdInit /\ [][MdNext]_vars

----------------------------------------------------------------------------
(* a call of text_to_tiptap_json *)

TextAlphabet == {"a", " ", "\n"}

TextInit ==
    /\ pc = "text_call"
    /\ ParserInit
    /\ MdLocalsInit
    /\ text \in StringsUpTo(TextAlphabet, MaxTextLen)
    /\ doc = NoDoc
    /\ SplitIdle
    /\ TitleIdle
    /\ ProjectIdle
    /\ ExportIdle
    /\ XhtmlIdle
    /\ StoreIdle

TextCall ==
    /\ pc = "text_call"
    /\ pc' = "text_done"
    /\ doc' = TextToTiptapJson(text)
    /\ UNCHANGED <<parserVars, mdVars, outputVars, storeVars, text, splitVars, titleVars, projectVars>>

SpecConv == (MdInit \/ TextInit) /\ [][MdNext \/ TextCall]_vars

----------------------------------------------------------------------------
(* make_unique_title *)

\* the loop of make_unique_title, entered with n
RECURSIVE FirstFreeNumbered(_, _, _)
FirstFreeNumbered(title, used, n) ==
    LET candidate == NumberedTitle(title, n)
    IN  IF ToLowercase(candidate) \notin used THEN candidate
        ELSE FirstFreeNumbered(title, used, n + 1)

\* faulty variant: the first lookup compares the title as written, not lower-cased
MakeUniqueTitleCaseSensitive(title, used) ==
    IF title \notin used THEN title ELSE FirstFreeNumbered(title, used, 1)

MakeUniqueTitle(title, used) ==
    IF ToLowercase(title) \notin used THEN title
    ELSE FirstFreeNumbered(title, used, 1)

\* a call of make_unique_title
TitleCandidates == {<<"A">>, <<"a">>, <<"B">>, NumberedTitle(<<"A">>, 1)}
UsedUniverse ==
    {<<"a">>, <<"b">>} \cup {NumberedTitle(<<"a">>, k) : k \in 1..MaxSuffix}

TitleInit ==
    /\ pc = "title_call"
    /\ ParserInit
    /\ MdLocalsInit
    /\ ConvIdle
    /\ SplitIdle
    /\ ProjectIdle
    /\ ExportIdle
    /\ XhtmlIdle
    /\ StoreIdle
    /\ raw_title \in TitleCandidates
    /\ used_titles \in SUBSET UsedUniverse
    /\ section_title = <<>>

TitleCall ==
    /\ pc = "title_call"
    /\ pc' = "title_done"
    /\ section_title' = MakeUniqueTitle(raw_title, used_titles)
    /\ UNCHANGED <<parserVars, mdVars, outputVars, storeVars, convVars, splitVars, raw_title, used_titles,
                   projectVars>>

SpecTitle == TitleInit /\ [][TitleCall]_vars

----------------------------------------------------------------------------
(* split_by_delimiter *)

Section(title, body) == [title |-> title, content |-> body]

\* faulty variant: the joined lines are not trimmed
SectionContentUntrimmed(current_content) == Join(current_content, <<"\n">>)

\* current_content.join("\n").trim()
SectionContent(current_content) == Trim(Join(current_content, <<"\n">>))

\* faulty variant: a section is kept only when it has content, whatever the flag
KeepsSectionNonEmptyOnly(content_str, extract) == content_str # <<>>

\* !content_str.is_empty() || !extract_titles
KeepsSection(content_str, extract) == content_str # <<>> \/ ~extract

\* faulty variant: the chapter number advances for a suppressed section too
SaveSectionCountingAll(st, extract) ==
    IF ~st.current_title.some THEN st
    ELSE LET content_str == SectionContent(st.current_content)
         IN  IF KeepsSection(content_str, extract)
             THEN [st EXCEPT !.sections = Append(@, Section(st.current_title.val, content_str)),
                             !.chapter_num = @ + 1]
             ELSE [st EXCEPT !.chapter_num = @ + 1]

\* a delimiter line saves the section that was open
SaveSection(st, extract) ==
    IF ~st.current_title.some THEN st
    ELSE LET content_str == SectionContent(st.current_content)
         IN  IF KeepsSection(content_str, extract)
             THEN [st EXCEPT !.sections = Append(@, Section(st.current_title.val, content_str)),
                             !.chapter_num = @ + 1]
             ELSE st

\* the title a delimiter line gives the section it opens
DelimiterTitle(line, delim, extract, chapter_num) ==
    IF extract
    THEN LET after_delim == Trim(SubSeq(line, Len(delim) + 1, Len(line)))
         IN  IF after_delim # <<>> THEN after_delim ELSE ChapterTitle(chapter_num)
    ELSE ChapterTitle(chapter_num)

\* one iteration of `for line in lines`
SplitLine(st, line, delim, extract) ==
    IF StartsWith(line, delim)
    THEN LET saved == SaveSection(st, extract)
         IN  [saved EXCEPT
                 !.current_title = Some(DelimiterTitle(line, delim, extract, saved.chapter_num)),
                 !.current_content = <<>>]
    ELSE IF st.current_title.some
         THEN [st EXCEPT !.current_content = Append(@, line)]
         ELSE st

RECURSIVE SplitLines(_, _, _, _)
SplitLines(st, lines, delim, extract) ==
    IF lines = <<>> THEN st
    ELSE SplitLines(SplitLine(st, Head(lines), delim, extract), Tail(lines), delim, extract)

SplitByDelimiter(c, delim, extract) ==
    LET start == [sections |-> <<>>, chapter_num |-> 1,
                  current_title |-> None, current_content |-> <<>>]
        looped == SplitLines(start, Lines(c), delim, extract)
        \* the last section; its chapter_num is not read again
        final == SaveSection(looped, extract).sections
    IN  IF final = <<>> THEN <<Section(ChapterTitle(1), c)>> ELSE final

\* a call of split_by_delimiter: the content is up to MaxLines lines
LineChoices == {<<>>, <<" ", "a", " ">>, <<"#">>, <<"#", " ">>, <<"#", " ", "B", " ">>}
Delimiters == {<<"#">>, <<"#", " ">>}
SplitContents ==
    UNION {{Join(ls, <<"\n">>) : ls \in [1..k -> LineChoices]} : k \in 0..MaxLines}

SplitInit ==
    /\ pc = "split_call"
    /\ ParserInit
    /\ MdLocalsInit
    /\ ConvIdle
    /\ TitleIdle
    /\ ProjectIdle
    /\ ExportIdle
    /\ XhtmlIdle
    /\ StoreIdle
    /\ split_content \in SplitContents
    /\ delimiter \in Delimiters
    /\ extract_titles \in BOOLEAN
    /\ sections = <<>>

SplitCall ==
    /\ pc = "split_call"
    /\ pc' = "split_done"
    /\ sections' = SplitByDelimiter(split_content, delimiter, extract_titles)
    /\ UNCHANGED <<parserVars, mdVars, outputVars, storeVars, convVars, titleVars, projectVars, storeVars,
                   split_content, delimiter, extract_titles>>

SpecSplit == SplitInit /\ [][SplitCall]_vars

----------------------------------------------------------------------------
(* The project directory, import_chapters and delete_chapter *)

Project(order, titles) == [chapterOrder |-> order, chapterTitles |-> titles]

\* Iterator::max().unwrap_or(0)
MaxOr0(ids) ==
    IF ids = <<>> THEN 0
    ELSE CHOOSE m \in Range(ids) : \A i \in Range(ids) : i <= m

\* the titles recorded in a project, lower-cased
LowerTitles(project) ==
    IF project.chapterTitles.some
    THEN {ToLowercase(project.chapterTitles.val[k]) : k \in DOMAIN project.chapterTitles.val}
    ELSE {}

\* what serde_json::to_string_pretty(&tiptap_json) puts in a chapter file: the
\* document the extension's converter builds from the section
ChapterFile(extension, section_content) ==
    [converter |-> IF extension = "md" THEN "markdown_to_tiptap_json"
                   ELSE "text_to_tiptap_json",
     source |-> section_content]

\* the function f with f[k] = v added or replaced
Put(f, k, v) == [x \in DOMAIN f \cup {k} |-> IF x = k THEN v ELSE f[x]]
Remove(f, k) == [x \in DOMAIN f \ {k} |-> f[x]]

\* the locals and the chapters directory, as the section loop sees them
ImportState ==
    [used_titles |-> used_titles, next_id |-> next_id,
     imported_chapters |-> imported_chapters, project_data |-> project_data,
     chapter_files |-> chapter_files, assigned |-> <<>>]

\* faulty variant: the chosen title is not added to used_titles
ImportSectionForgettingTitle(st, sec, extension) ==
    LET title == MakeUniqueTitle(sec.title, st.used_titles)
    IN  [st EXCEPT
            !.chapter_files = Put(@, st.next_id, ChapterFile(extension, sec.content)),
            !.assigned = Append(@, st.next_id),
            !.imported_chapters = Append(@, [id |-> st.next_id, title |-> title]),
            !.project_data = Some([@.val EXCEPT !.chapterOrder = Append(@, st.next_id)]),
            !.next_id = @ + 1]

\* one iteration of `for (raw_title, section_content) in sections`
ImportSection(st, sec, extension) ==
    LET title == MakeUniqueTitle(sec.title, st.used_titles)
    IN  [st EXCEPT
            !.used_titles = @ \cup {ToLowercase(title)},
            !.chapter_files = Put(@, st.next_id, ChapterFile(extension, sec.content)),
            !.assigned = Append(@, st.next_id),
            !.imported_chapters = Append(@, [id |-> st.next_id, title |-> title]),
            !.project_data = Some([@.val EXCEPT !.chapterOrder = Append(@, st.next_id)]),
            !.next_id = @ + 1]

RECURSIVE ImportSections(_, _, _)
ImportSections(st, secs, extension) ==
    IF secs = <<>> THEN st
    ELSE ImportSections(ImportSection(st, Head(secs), extension), Tail(secs), extension)

\* the sections of one file
FileSections(file) ==
    IF chapter_delimiter.some
    THEN SplitByDelimiter(file.content, chapter_delimiter.val, extract_title_from_delimiter)
    ELSE <<Section(IF use_filename_as_title THEN file.stem ELSE ChapterTitle(next_id),
                   file.content)>>

\* the files a caller may pass: A.txt of one paragraph, a.md of two delimited
\* sections whose titles differ in case only, and a file that is skipped
ImportFiles ==
    {[stem |-> <<"A">>, extension |-> "txt", content |-> <<"x">>],
     [stem |-> <<"a">>, extension |-> "md",
      content |-> <<"#", " ", "a", "\n", "x", "\n", "#", " ", "A", "\n", "x">>],
     [stem |-> <<"A">>, extension |-> "rs", content |-> <<"x">>]}
\* the options a caller may pass: without a delimiter the extraction flag is
\* not read, with one the filename flag is not read
ImportOptions ==
    {[use_filename_as_title |-> u, chapter_delimiter |-> None,
      extract_title_from_delimiter |-> FALSE] : u \in BOOLEAN}
       \cup {[use_filename_as_title |-> FALSE, chapter_delimiter |-> Some(<<"#", " ">>),
               extract_title_from_delimiter |-> e] : e \in BOOLEAN}

Supported(file) == file.extension \in {"txt", "md"}

\* the call starts: project.json is read (or defaulted), the locals are set up
ImportBegin ==
    /\ pc = "idle"
    /\ n_calls < MaxCalls
    /\ n_calls' = n_calls + 1
    /\ pc' = "import_files"
    /\ \E options \in ImportOptions :
          /\ use_filename_as_title' = options.use_filename_as_title
          /\ chapter_delimiter' = options.chapter_delimiter
          /\ extract_title_from_delimiter' = options.extract_title_from_delimiter
    /\ LET data == IF project_json.some THEN project_json.val ELSE Project(<<>>, None)
       IN  /\ project_data' = Some(data)
           /\ next_id' = MaxOr0(data.chapterOrder) + 1
           /\ used_titles' = LowerTitles(data)
    /\ imported_chapters' = <<>>
    /\ files_done' = 0
    /\ last_assigned' = <<>>
    /\ dirs' = dirs \cup {"chapters"}
    /\ result' = "none"
    /\ UNCHANGED <<parserVars, mdVars, outputVars, json_content, raw_name, final_name,
                   export_file, calls, convVars, splitVars, raw_title, section_title,
                   diskVars, max_assigned>>

\* the next file has an unsupported extension: `continue`
ImportSkipFile ==
    /\ pc = "import_files"
    /\ files_done < MaxFiles
    /\ \E file \in ImportFiles : ~Supported(file)
    /\ files_done' = files_done + 1
    /\ last_assigned' = <<>>
    /\ UNCHANGED <<pc, parserVars, mdVars, outputVars, storeVars, convVars, splitVars, titleVars, diskVars,
                   importArgs, project_data, next_id, imported_chapters, max_assigned,
                   n_calls>>

\* history: the step gave `ids` to chapters
Assign(ids) ==
    /\ last_assigned' = ids
    /\ max_assigned' = IF MaxOr0(ids) > max_assigned THEN MaxOr0(ids) ELSE max_assigned

\* the next file is read, split, and a chapter file is written per section
ImportFile ==
    /\ pc = "import_files"
    /\ files_done < MaxFiles
    /\ \E file \in ImportFiles :
          /\ Supported(file)
          /\ LET st == ImportSections(ImportState, FileSections(file), file.extension)
             IN  /\ st.next_id <= MaxId + 1
                 /\ used_titles' = st.used_titles
                 /\ next_id' = st.next_id
                 /\ imported_chapters' = st.imported_chapters
                 /\ project_data' = st.project_data
                 /\ chapter_files' = st.chapter_files
                 /\ Assign(st.assigned)
    /\ files_done' = files_done + 1
    /\ UNCHANGED <<pc, parserVars, mdVars, outputVars, storeVars, convVars, splitVars, raw_title,
                   section_title, project_json, importArgs, n_calls>>

\* the call returns Err: the locals are gone, the directory stays as it is
ImportReturnErr ==
    /\ pc' = "idle"
    /\ use_filename_as_title' = FALSE
    /\ chapter_delimiter' = None
    /\ extract_title_from_delimiter' = FALSE
    /\ files_done' = 0
    /\ project_data' = None
    /\ next_id' = 0
    /\ imported_chapters' = <<>>
    /\ used_titles' = {}

\* faulty variant: a failed call takes back the chapter files it wrote
ImportReadFailsRollingBack ==
    /\ pc = "import_files"
    /\ files_done < MaxFiles
    /\ ImportReturnErr
    /\ last_assigned' = <<>>
    /\ result' = "Err"
    /\ chapter_files' =
          [id \in {i \in DOMAIN chapter_files :
                     i <= MaxOr0(project_json.val.chapterOrder)} |-> chapter_files[id]]
    /\ UNCHANGED <<parserVars, mdVars, outputVars, dirs, json_content, raw_name, final_name,
                   export_file, calls, convVars, splitVars, raw_title, section_title,
                   project_json, max_assigned, n_calls>>

\* fs::read_to_string fails on the next file
ImportReadFails ==
    /\ pc = "import_files"
    /\ files_done < MaxFiles
    /\ ImportReturnErr
    /\ last_assigned' = <<>>
    /\ result' = "Err"
    /\ UNCHANGED <<parserVars, mdVars, outputVars, dirs, json_content, raw_name, final_name,
                   export_file, calls, convVars, splitVars, raw_title, section_title,
                   diskVars, max_assigned, n_calls>>

\* fs::write fails on the chapter file of section k of the next file: the
\* sections before it are on disk
ImportWriteFails ==
    /\ pc = "import_files"
    /\ files_done < MaxFiles
    /\ \E file \in ImportFiles :
          /\ Supported(file)
          /\ \E k \in 1..Len(FileSections(file)) :
                LET st == ImportSections(ImportState, SubSeq(FileSections(file), 1, k - 1),
                                         file.extension)
                IN  /\ st.next_id <= MaxId
                    /\ chapter_files' = st.chapter_files
                    /\ Assign(st.assigned)
    /\ ImportReturnErr
    /\ result' = "Err"
    /\ UNCHANGED <<parserVars, mdVars, outputVars, dirs, json_content, raw_name, final_name,
                   export_file, calls, convVars, splitVars, raw_title, section_title,
                   project_json, n_calls>>

\* chapterTitles after the imported titles were inserted under their ids
RECURSIVE WithTitles(_, _)
WithTitles(titles, imported) ==
    IF imported = <<>> THEN titles
    ELSE WithTitles(Put(titles, Head(imported).id, Head(imported).title), Tail(imported))

\* file_paths is exhausted: the titles are recorded and project.json written
ImportFinish ==
    /\ pc = "import_files"
    /\ LET data == project_data.val
           titles == IF data.chapterTitles.some THEN data.chapterTitles.val ELSE <<>>
       IN  project_json' =
              IF imported_chapters # <<>>
              THEN Some([data EXCEPT
                            !.chapterTitles = Some(WithTitles(titles, imported_chapters))])
              ELSE Some(data)
    /\ ImportReturnErr
    /\ last_assigned' = <<>>
    /\ result' = "Ok"
    /\ UNCHANGED <<parserVars, mdVars, outputVars, dirs, json_content, raw_name, final_name,
                   export_file, calls, convVars, splitVars, raw_title, section_title,
                   chapter_files, max_assigned, n_calls>>

\* Vec::retain: the elements other than id, in order
RECURSIVE Without(_, _)
Without(ids, id) ==
    IF ids = <<>> THEN <<>>
    ELSE IF Head(ids) = id THEN Without(Tail(ids), id)
    ELSE <<Head(ids)>> \o Without(Tail(ids), id)

\* the ids a caller knows of
KnownIds ==
    DOMAIN chapter_files
       \cup (IF project_json.some THEN Range(project_json.val.chapterOrder) ELSE {})

DeleteChapter ==
    /\ pc = "idle"
    /\ n_calls < MaxCalls
    /\ n_calls' = n_calls + 1
    /\ last_assigned' = <<>>
    /\ \E chapter_id \in KnownIds :
          /\ chapter_files' = Remove(chapter_files, chapter_id)
          /\ project_json' =
                IF ~project_json.some THEN project_json
                ELSE LET project == project_json.val
                     IN  Some([project EXCEPT
                                  !.chapterOrder = Without(@, chapter_id),
                                  !.chapterTitles =
                                      IF @.some THEN Some(Remove(@.val, chapter_id))
                                      ELSE @])
    /\ result' = "Ok"
    /\ UNCHANGED <<pc, parserVars, mdVars, outputVars, dirs, json_content, raw_name, final_name,
                   export_file, calls, convVars, splitVars, titleVars, importArgs,
                   importLocals, max_assigned>>

\* the projects the calls start from: the project create_project writes,
\* and a project that holds two titled chapters
InitialProjects ==
    {[json |-> Some(Project(<<>>, None)), files |-> <<>>, ids |-> <<>>],
     [json |-> Some(Project(<<1, 2>>, Some(<<<<"A">>, <<"a", " ", "(", "1", ")">>>>))),
      files |-> <<ChapterFile("txt", <<"x">>), ChapterFile("txt", <<"x">>)>>,
      ids |-> <<1, 2>>]}

ProjectInit ==
    /\ pc = "idle"
    /\ ParserInit
    /\ MdLocalsInit
    /\ ConvIdle
    /\ SplitIdle
    /\ TitleIdle
    /\ ImportIdle
    /\ ExportIdle
    /\ XhtmlIdle
    /\ dirs = {"chapters"}
    /\ result = "none"
    /\ json_content = <<>>
    /\ raw_name = <<>>
    /\ final_name = <<>>
    /\ export_file = None
    /\ calls = <<>>
    /\ n_calls = 0
    /\ last_assigned = <<>>
    /\ \E p \in InitialProjects :
          /\ project_json = p.json
          /\ chapter_files = p.files
          /\ max_assigned = MaxOr0(p.ids)

ProjectNext ==
    \/ ImportBegin \/ ImportSkipFile \/ ImportFile \/ ImportReadFails
    \/ ImportWriteFails \/ ImportFinish \/ DeleteChapter

SpecProject == ProjectInit /\ [][ProjectNext]_vars

----------------------------------------------------------------------------
(* escape_xml *)

\* str::replace(c, rep): every occurrence of the character c becomes rep
RECURSIVE Replace(_, _, _)
Replace(s, c, rep) ==
    IF s = <<>> THEN <<>>
    ELSE (IF Head(s) = c THEN rep ELSE <<Head(s)>>) \o Replace(Tail(s), c, rep)

Amp == <<"&", "a", "m", "p", ";">>
Lt == <<"&", "l", "t", ";">>
Gt == <<"&", "g", "t", ";">>
Quot == <<"&", "q", "u", "o", "t", ";">>

\* faulty variant: the ampersand is replaced last
EscapeXmlAmpersandLast(s) ==
    Replace(Replace(Replace(Replace(s, "<", Lt), ">", Gt), "\"", Quot), "&", Amp)

EscapeXml(s) ==
    Replace(Replace(Replace(Replace(s, "&", Amp), "<", Lt), ">", Gt), "\"", Quot)

XmlAlphabet == {"&", "<", ">", "\"", "b"}

\* everything but the XHTML functions is idle
NotXhtmlIdle ==
    /\ ParserInit
    /\ MdLocalsInit
    /\ ConvIdle
    /\ SplitIdle
    /\ TitleIdle
    /\ ProjectIdle
    /\ ExportIdle
    /\ StoreIdle

EscapeInit ==
    /\ pc = "escape_call"
    /\ NotXhtmlIdle
    /\ xml_s \in StringsUpTo(XmlAlphabet, MaxXmlLen)
    /\ items = <<>>
    /\ nodes = <<>>
    /\ out = <<>>

EscapeXmlCall ==
    /\ pc = "escape_call"
    /\ pc' = "escape_done"
    /\ out' = EscapeXml(xml_s)
    /\ UNCHANGED <<parserVars, mdVars, convVars, splitVars, titleVars, projectVars, storeVars,
                   exportVars, xml_s, items, nodes>>

SpecEscape == EscapeInit /\ [][EscapeXmlCall]_vars

----------------------------------------------------------------------------
(* render_inline *)

\* the pieces pushed onto `out`: a literal, the span opener built by format!, and
\* the escaped text of a run
Lit(str) == [lit |-> str]
SpanOpen(style) == [fmt |-> "<span style=\"{}\">", style |-> style]
Txt(escaped_text) == [text |-> escaped_text]

\* a textStyle mark; an attribute that is absent or of the wrong JSON type is None
StyleMark(fontSize, fontFamily) ==
    [type |-> "textStyle", attrs |-> [fontSize |-> fontSize, fontFamily |-> fontFamily]]
HardBreakNode == [type |-> "hardBreak"]

Reverse(seq) == [i \in 1..Len(seq) |-> seq[Len(seq) + 1 - i]]

\* a.and_then(|x| x.get("fontSize")).and_then(|v| v.as_f64())
FontSizeOf(mark) == mark.attrs.fontSize
\* ...get("fontFamily")).and_then(|v| v.as_str()).filter(|s| !s.is_empty())
FontFamilyOf(mark) ==
    IF mark.attrs.fontFamily.some /\ mark.attrs.fontFamily.val # <<>>
    THEN mark.attrs.fontFamily
    ELSE None

SpanStyle(mark) ==
    (IF FontSizeOf(mark).some
     THEN <<[fmt |-> "font-size:{}pt;", arg |-> FontSizeOf(mark).val]>> ELSE <<>>)
       \o (IF FontFamilyOf(mark).some
           THEN <<[fmt |-> "font-family:{};", arg |-> EscapeXml(FontFamilyOf(mark).val)]>>
           ELSE <<>>)

\* the arm of the opening loop taken for one mark
OpenMark(mark) ==
    CASE mark.type = "bold" -> <<Lit("<strong>")>>
      [] mark.type = "italic" -> <<Lit("<em>")>>
      [] mark.type = "strike" -> <<Lit("<s>")>>
      [] mark.type = "code" -> <<Lit("<code>")>>
      [] mark.type = "textStyle" ->
            IF FontSizeOf(mark).some \/ FontFamilyOf(mark).some
            THEN <<SpanOpen(SpanStyle(mark))>>
            ELSE <<>>
      [] OTHER -> <<>>

\* the arm of the closing loop taken for one mark
CloseMark(mark) ==
    CASE mark.type = "bold" -> <<Lit("</strong>")>>
      [] mark.type = "italic" -> <<Lit("</em>")>>
      [] mark.type = "strike" -> <<Lit("</s>")>>
      [] mark.type = "code" -> <<Lit("</code>")>>
      [] mark.type = "textStyle" ->
            IF FontSizeOf(mark).some \/ FontFamilyOf(mark).some
            THEN <<Lit("</span>")>>
            ELSE <<>>
      [] OTHER -> <<>>

RECURSIVE OpenMarks(_)
OpenMarks(marks) ==
    IF marks = <<>> THEN <<>> ELSE OpenMark(Head(marks)) \o OpenMarks(Tail(marks))

RECURSIVE CloseMarks(_)
CloseMarks(marks) ==
    IF marks = <<>> THEN <<>> ELSE CloseMark(Head(marks)) \o CloseMarks(Tail(marks))

\* faulty variant: the closing loop runs over the marks front to back
RenderTextClosingForward(item) ==
    OpenMarks(MarksOf(item)) \o <<Txt(EscapeXml(item.text))>> \o CloseMarks(MarksOf(item))

\* the "text" arm
RenderText(item) ==
    OpenMarks(MarksOf(item)) \o <<Txt(EscapeXml(item.text))>>
       \o CloseMarks(Reverse(MarksOf(item)))

RenderItem(item) ==
    CASE item.type = "hardBreak" -> <<Lit("<br/>")>>
      [] item.type = "text" -> RenderText(item)
      [] OTHER -> <<>>

RECURSIVE RenderInline(_)
RenderInline(inline_items) ==
    IF inline_items = <<>> THEN <<>>
    ELSE RenderItem(Head(inline_items)) \o RenderInline(Tail(inline_items))

\* the marks a run may carry
MarkChoices ==
    {Mark("bold"), Mark("italic"), Mark("strike"), Mark("code"), Mark("link"),
     StyleMark(None, None), StyleMark(Some(12), None), StyleMark(None, Some(<<>>)),
     StyleMark(None, Some(<<"F", "&">>)), StyleMark(Some(12), Some(<<"F", "&">>))}

RunText == <<"a", "<">>

\* what follows the run: nothing, a hard break, or a node of another type
InlineTails == {<<>>, <<HardBreakNode>>, <<[type |-> "image"]>>}

InlineInit ==
    /\ pc = "inline_call"
    /\ NotXhtmlIdle
    /\ xml_s = <<>>
    /\ \E k \in 0..MaxMarks : \E marks \in [1..k -> MarkChoices] : \E tail \in InlineTails :
          items = <<TextNode(RunText, marks)>> \o tail
    /\ nodes = <<>>
    /\ out = <<>>

RenderInlineCall ==
    /\ pc = "inline_call"
    /\ pc' = "inline_done"
    /\ out' = RenderInline(items)
    /\ UNCHANGED <<parserVars, mdVars, convVars, splitVars, titleVars, projectVars, storeVars,
                   exportVars, xml_s, items, nodes>>

SpecInline == InlineInit /\ [][RenderInlineCall]_vars

----------------------------------------------------------------------------
(* render_blocks *)

\* node.get("attrs").and_then(|a| a.get(key))
AttrOf(node, key) ==
    IF "attrs" \in DOMAIN node /\ key \in DOMAIN node.attrs
    THEN Some(node.attrs[key])
    ELSE None
\* node.get("content").and_then(|c| c.as_array())
ContentOf(node) == IF "content" \in DOMAIN node THEN Some(node.content) ELSE None
\* Value::as_u64: a number that is not a non-negative integer gives None
AsU64(opt) == IF opt.some /\ opt.val \in Nat THEN opt ELSE None
UnwrapOr(opt, default) == IF opt.some THEN opt.val ELSE default
\* Ord::clamp
Clamp(v, lo, hi) == IF v < lo THEN lo ELSE IF v > hi THEN hi ELSE v

\* a piece built by format!: the template and its arguments in order
Fmt(template, args) == [fmt |-> template, args |-> args]
\* String::is_empty of a string held as pieces
IsEmptyString(pieces) == \A i \in 1..Len(pieces) : pieces[i] = Txt(<<>>)

\* align ... .filter(|&a| a != "left"), then style
BlockStyle(node) ==
    LET align == AttrOf(node, "textAlign")
    IN  IF align.some /\ align.val # "left"
        THEN <<Fmt(" style=\"text-align:{}\"", <<align.val>>)>>
        ELSE <<>>

\* content rendered by render_inline, or the empty string
InlineOf(node) ==
    IF ContentOf(node).some THEN RenderInline(ContentOf(node).val) ELSE <<>>

\* faulty variant: the level is raised to 2 but not capped at 6
HeadingLevelUncapped(node) ==
    LET level == UnwrapOr(AsU64(AttrOf(node, "level")), 2)
    IN  IF level < 2 THEN 2 ELSE level

\* level ... .and_then(|v| v.as_u64()).unwrap_or(2).clamp(2, 6)
HeadingLevel(node) == Clamp(UnwrapOr(AsU64(AttrOf(node, "level")), 2), 2, 6)

RenderParagraph(node) ==
    IF IsEmptyString(InlineOf(node))
    THEN <<Fmt("<p{}>&#160;</p>\n", <<BlockStyle(node)>>)>>
    ELSE <<Fmt("<p{}>{}</p>\n", <<BlockStyle(node), InlineOf(node)>>)>>

RenderHeading(node) ==
    <<Fmt("<h{}{}>{}</h{}>\n",
          <<HeadingLevel(node), BlockStyle(node), InlineOf(node), HeadingLevel(node)>>)>>

\* the inline content of the paragraphs of one list item
RECURSIVE RenderItemParagraphs(_)
RenderItemParagraphs(item_content) ==
    IF item_content = <<>> THEN <<>>
    ELSE InlineOf(Head(item_content)) \o RenderItemParagraphs(Tail(item_content))

RECURSIVE RenderListItems(_)
RenderListItems(list_items) ==
    IF list_items = <<>> THEN <<>>
    ELSE <<Lit("<li>")>>
            \o (IF ContentOf(Head(list_items)).some
                THEN RenderItemParagraphs(ContentOf(Head(list_items)).val) ELSE <<>>)
            \o <<Lit("</li>\n")>>
            \o RenderListItems(Tail(list_items))

RenderList(node) ==
    LET tag == IF node.type = "bulletList" THEN "ul" ELSE "ol"
    IN  <<Fmt("<{}>\n", <<tag>>)>>
            \o (IF ContentOf(node).some THEN RenderListItems(ContentOf(node).val) ELSE <<>>)
            \o <<Fmt("</{}>\n", <<tag>>)>>

RenderImageBleed(node) ==
    LET name == UnwrapOr(AttrOf(node, "name"), <<>>)
        alt == UnwrapOr(AttrOf(node, "alt"), <<>>)
    IN  IF name # <<>>
        THEN <<Fmt("<div class=\"image-bleed\"><img src=\"../images/{}\" alt=\"{}\"/></div>\n",
                   <<EscapeXml(name), EscapeXml(alt)>>)>>
        ELSE <<>>

RECURSIVE RenderBlocks(_)
RenderBlock(node) ==
    CASE node.type = "paragraph" -> RenderParagraph(node)
      [] node.type = "heading" -> RenderHeading(node)
      [] node.type = "blockquote" ->
            <<Lit("<blockquote>\n")>>
               \o (IF ContentOf(node).some THEN RenderBlocks(ContentOf(node).val) ELSE <<>>)
               \o <<Lit("</blockquote>\n")>>
      [] node.type \in {"bulletList", "orderedList"} -> RenderList(node)
      [] node.type = "horizontalRule" -> <<Lit("<hr/>\n")>>
      [] node.type = "colorBleed" ->
            <<Fmt("<div style=\"background-color:{};color:{};margin:0 -2em;padding:2em;\">\n",
                  <<EscapeXml(UnwrapOr(AttrOf(node, "backgroundColor"),
                                       <<"#", "0", "0", "0", "0", "0", "0">>)),
                    EscapeXml(UnwrapOr(AttrOf(node, "textColor"),
                                       <<"#", "f", "f", "f", "f", "f", "f">>))>>)>>
               \o (IF ContentOf(node).some THEN RenderBlocks(ContentOf(node).val) ELSE <<>>)
               \o <<Lit("</div>\n")>>
      [] node.type = "imageBleed" -> RenderImageBleed(node)
      [] OTHER -> <<>>

RenderBlocks(block_nodes) ==
    IF block_nodes = <<>> THEN <<>>
    ELSE RenderBlock(Head(block_nodes)) \o RenderBlocks(Tail(block_nodes))

\* a block node with the attributes and the content that are present
WithAttrs(type, attrs, content_opt) ==
    IF content_opt.some
    THEN [type |-> type, attrs |-> attrs, content |-> content_opt.val]
    ELSE [type |-> type, attrs |-> attrs]

\* the attrs object holding the keys that are present
AttrsOf(keys, values) == [k \in {key \in keys : values[key].some} |-> values[k].val]

HeadingWith(level, align, content_opt) ==
    WithAttrs("heading",
              AttrsOf({"level", "textAlign"}, [level |-> level, textAlign |-> align]),
              content_opt)

ParagraphWith(align, content_opt) ==
    WithAttrs("paragraph", AttrsOf({"textAlign"}, [textAlign |-> align]), content_opt)

ImageBleed(name) == WithAttrs("imageBleed", AttrsOf({"name"}, [name |-> name]), None)

\* a level attribute: absent, a number that is no u64, or 0..MaxLevel
LevelChoices == {None} \cup {Some(l) : l \in -1..MaxLevel}
AlignChoices == {None, Some("left"), Some("center")}
InlineChoices ==
    {None, Some(<<>>), Some(<<TextNode(<<>>, <<>>)>>),
     Some(<<TextNode(RunText, <<Mark("bold")>>)>>)}

HeadingChoices ==
    {HeadingWith(l, a, c) : l \in LevelChoices, a \in AlignChoices, c \in InlineChoices}

OtherBlockChoices ==
    {ParagraphWith(a, c) : a \in AlignChoices, c \in InlineChoices}
       \cup {Block(t, <<Block("listItem", <<Block("paragraph", <<TextNode(RunText, <<>>)>>)>>)>>) :
                t \in {"bulletList", "orderedList"}}
       \cup {[type |-> "horizontalRule"], [type |-> "table"],
             Block("colorBleed", <<EmptyParagraph>>),
             ImageBleed(None), ImageBleed(Some(<<>>)), ImageBleed(Some(<<"a", "&">>))}

\* the children a list item may hold besides its first paragraph
ItemChildChoices ==
    {<<>>,
     <<Block("paragraph", <<TextNode(<<"p">>, <<>>)>>)>>,
     <<HeadingWith(Some(2), None, Some(<<TextNode(<<"h">>, <<>>)>>))>>,
     <<Block("codeBlock", <<TextNode(<<"c">>, <<>>)>>)>>,
     <<Block("blockquote", <<Block("paragraph", <<TextNode(<<"q">>, <<>>)>>)>>)>>,
     <<Block("bulletList",
             <<Block("listItem", <<Block("paragraph", <<TextNode(<<"n">>, <<>>)>>)>>)>>)>>,
     <<[type |-> "horizontalRule"]>>}

\* a list of one or two items
ListChoices ==
    {Block(t, <<Block("listItem",
                      <<Block("paragraph", <<TextNode(RunText, <<>>)>>)>> \o c)>> \o more) :
        t \in {"bulletList", "orderedList"}, c \in ItemChildChoices,
        more \in {<<>>, <<Block("listItem", <<>>)>>, <<[type |-> "listItem"]>>}}

\* one block, bare or inside a blockquote
BlockInputs ==
    {<<b>> : b \in HeadingChoices \cup OtherBlockChoices \cup ListChoices}
       \cup {<<Block("blockquote", <<h>>)>> : h \in HeadingChoices}

BlocksInit ==
    /\ pc = "blocks_call"
    /\ NotXhtmlIdle
    /\ xml_s = <<>>
    /\ items = <<>>
    /\ nodes \in BlockInputs
    /\ out = <<>>

RenderBlocksCall ==
    /\ pc = "blocks_call"
    /\ pc' = "blocks_done"
    /\ out' = RenderBlocks(nodes)
    /\ UNCHANGED <<parserVars, mdVars, convVars, splitVars, titleVars, projectVars, storeVars,
                   exportVars, xml_s, items, nodes>>

SpecBlocks == BlocksInit /\ [][RenderBlocksCall]_vars

----------------------------------------------------------------------------
(* json_to_rtf_content *)

\* the texts of the items that have one, as pushed by rtf.push_str(text)
RECURSIVE RtfTexts(_)
RtfTexts(node_content) ==
    IF node_content = <<>> THEN <<>>
    ELSE (IF "text" \in DOMAIN Head(node_content)
          THEN <<Txt(Head(node_content).text)>> ELSE <<>>)
            \o RtfTexts(Tail(node_content))

\* one item of a paragraph: the marks, the text, and the reset
RtfParagraphItem(item) ==
    (IF "marks" \in DOMAIN item
     THEN (IF HasMark(item, "bold") THEN <<Lit("\\b ")>> ELSE <<>>)
             \o (IF HasMark(item, "italic") THEN <<Lit("\\i ")>> ELSE <<>>)
     ELSE <<>>)
       \o (IF "text" \in DOMAIN item THEN <<Txt(item.text)>> ELSE <<>>)
       \o <<Lit("\\b0\\i0 ")>>

RECURSIVE RtfParagraphItems(_)
RtfParagraphItems(node_content) ==
    IF node_content = <<>> THEN <<>>
    ELSE RtfParagraphItem(Head(node_content)) \o RtfParagraphItems(Tail(node_content))

RtfParagraph(node) ==
    <<Lit("{\\pard ")>>
       \o (IF ContentOf(node).some THEN RtfParagraphItems(ContentOf(node).val) ELSE <<>>)
       \o <<Lit("\\par}\n")>>

\* match level { 2 => 32, 3 => 28, 4 => 24, _ => 20 }
FontSize(level) ==
    CASE level = 2 -> 32
      [] level = 3 -> 28
      [] level = 4 -> 24
      [] OTHER -> 20

\* the opening of the heading group
RtfHeadingOpen(node) ==
    LET level == AsU64(AttrOf(node, "level"))
    IN  IF level.some
        THEN Fmt("{{\\pard \\fs{} \\b ", <<FontSize(level.val)>>)
        ELSE Lit("{\\pard \\fs28 \\b ")

RtfHeading(node) ==
    <<RtfHeadingOpen(node)>>
       \o (IF ContentOf(node).some THEN RtfTexts(ContentOf(node).val) ELSE <<>>)
       \o <<Lit("\\b0\\par}\n")>>

\* the texts of the children of the blocks inside a blockquote
RECURSIVE RtfQuotedTexts(_)
RtfQuotedTexts(node_content) ==
    IF node_content = <<>> THEN <<>>
    ELSE (IF ContentOf(Head(node_content)).some
          THEN RtfTexts(ContentOf(Head(node_content)).val) ELSE <<>>)
            \o RtfQuotedTexts(Tail(node_content))

RtfBlockquote(node) ==
    <<Lit("{\\pard \\li720 ")>>
       \o (IF ContentOf(node).some THEN RtfQuotedTexts(ContentOf(node).val) ELSE <<>>)
       \o <<Lit("\\par}\n")>>

RtfNode(node) ==
    CASE node.type = "paragraph" -> RtfParagraph(node)
      [] node.type = "heading" -> RtfHeading(node)
      [] node.type = "blockquote" -> RtfBlockquote(node)
      [] OTHER -> <<>>

RECURSIVE RtfNodes(_)
RtfNodes(doc_nodes) ==
    IF doc_nodes = <<>> THEN <<>>
    ELSE RtfNode(Head(doc_nodes)) \o RtfNodes(Tail(doc_nodes))

\* content is the parsed chapter file, None when it did not parse
JsonToRtfContent(chapter_content) ==
    IF chapter_content.some /\ ContentOf(chapter_content.val).some
    THEN RtfNodes(ContentOf(chapter_content.val).val)
    ELSE <<>>

\* the documents handed to json_to_rtf_content: no document, a document
\* without content, and documents of one block, bare or quoted
RtfContents ==
    {None, Some([type |-> "doc"])}
       \cup {Some(Doc(<<b>>)) : b \in HeadingChoices \cup OtherBlockChoices}
       \cup {Some(Doc(<<Block("blockquote", <<b>>)>>)) : b \in OtherBlockChoices}

RtfContentInit ==
    /\ pc = "rtf_content_call"
    /\ ParserInit
    /\ MdLocalsInit
    /\ text = <<>>
    /\ doc \in RtfContents
    /\ SplitIdle
    /\ TitleIdle
    /\ ProjectIdle
    /\ ExportIdle
    /\ XhtmlIdle
    /\ StoreIdle

JsonToRtfContentCall ==
    /\ pc = "rtf_content_call"
    /\ pc' = "rtf_content_done"
    /\ rtf_content' = JsonToRtfContent(doc)
    /\ UNCHANGED <<parserVars, mdVars, convVars, splitVars, titleVars, projectVars, storeVars,
                   assets, chapter_ids, ids_to_export, chapters, all_image_names, zip,
                   filename, xhtmlVars>>

SpecRtfContent == RtfContentInit /\ [][JsonToRtfContentCall]_vars

----------------------------------------------------------------------------
(* export_project *)

\* project.json as the exports read it
Book(title, author, order, titles) ==
    [title |-> title, author |-> author, chapterOrder |-> order, chapterTitles |-> titles]

RtfPreamble ==
    <<Lit("{\\rtf1\\ansi\\ansicpg1252\\cocoartf2\n"),
      Lit("{\\colortbl;\\red255\\green255\\blue255;}\n"),
      Lit("{\\*\\expandedcolortbl;;}\n"),
      Lit("\\margl1440\\margr1440\\margtsxn0\\margbsxn0\\vieww11900\\viewh8605\\viewkind0\n"),
      Lit("\\pard\\tx720\\tx1440\\tx2160\\pardirnatural\\partightenfactor200\n\n")>>

\* the loop body for ids[i] (i counted from 1): nothing when the chapter file
\* does not exist
RtfChapter(ids, i, files) ==
    IF ids[i] \in DOMAIN files
    THEN <<Lit("{\\pard \\fs28 \\b "), Txt(ChapterTitle(ids[i])), Lit("\\b0\\par}\n"),
           Lit("{\\pard \\par}\n"), Lit("{\\pard \\par}\n")>>
            \o JsonToRtfContent(files[ids[i]])
            \o (IF i - 1 < Len(ids) - 1 THEN <<Lit("\\page\n")>> ELSE <<>>)
    ELSE <<>>

RECURSIVE RtfChapters(_, _, _)
RtfChapters(ids, i, files) ==
    IF i > Len(ids) THEN <<>>
    ELSE RtfChapter(ids, i, files) \o RtfChapters(ids, i + 1, files)

\* ids.iter().map(|id| id.to_string()).collect::<Vec<_>>().join("-")
IdRange(ids) == Join([i \in 1..Len(ids) |-> FormatNat(ids[i])], <<"-">>)

\* the file name, for the title with its spaces replaced and the date
RtfFilename(project, ids, date) ==
    LET stem == Replace(project.title, " ", <<"_">>) \o <<"_">> \o date
    IN  IF Len(ids) = Len(project.chapterOrder)
        THEN stem \o <<".", "r", "t", "f">>
        ELSE stem \o <<"_", "C", "h", "a", "p", "t", "e", "r", "s", "_">> \o IdRange(ids)
                \o <<".", "r", "t", "f">>

\* what Local::now().format("%Y-%m-%d") may give
Dates ==
    {<<"2", "0", "2", "5", "-", "1", "2", "-", "3", "1">>,
     <<"2", "0", "2", "6", "-", "0", "1", "-", "0", "1">>}

BookTitle == <<"M", "y", " ", "B">>

\* the chapter ids of the exported projects
ChapterIds == 1..MaxChapterId
\* chapterOrder of the exported projects
ExportOrders == {<<>>, <<1>>, <<1, 2>>, <<2, 1>>, <<1, 2, 3>>}
\* the chapter_ids a caller may pass
Requests == StringsUpTo(ChapterIds, MaxRequest)
\* a chapter file: a document, or text that does not parse
RtfChapterFiles ==
    {Some(Doc(<<Block("paragraph", <<TextNode(<<"x">>, <<>>)>>)>>)), None}

ExportProjectInit ==
    /\ pc = "export_call"
    /\ ParserInit
    /\ MdLocalsInit
    /\ ConvIdle
    /\ SplitIdle
    /\ TitleIdle
    /\ ImportIdle
    /\ last_assigned = <<>>
    /\ max_assigned = 0
    /\ n_calls = 0
    /\ \E order \in ExportOrders : project_json = Some(Book(BookTitle, <<>>, order, None))
    /\ \E present \in SUBSET ChapterIds : chapter_files \in [present -> RtfChapterFiles]
    /\ assets = {}
    /\ chapter_ids \in Requests
    /\ ids_to_export = <<>>
    /\ chapters = <<>>
    /\ all_image_names = <<>>
    /\ zip = <<>>
    /\ rtf_content = <<>>
    /\ filename = <<>>
    /\ XhtmlIdle
    /\ StoreIdle

\* the document is rendered in memory and its name is generated
ExportRender ==
    LET project == project_json.val
        ids == IF chapter_ids = <<>> THEN project.chapterOrder ELSE chapter_ids
    IN  /\ ids_to_export' = ids
        /\ rtf_content' = RtfPreamble \o RtfChapters(ids, 1, chapter_files) \o <<Lit("}")>>
        /\ \E date \in Dates : filename' = RtfFilename(project, ids, date)

\* the call runs to Ok: the document and its name are what fs::write stores
ExportProject ==
    /\ pc = "export_call"
    /\ pc' = "export_done"
    /\ ExportRender
    /\ export_file' = Some(filename')
    /\ UNCHANGED <<parserVars, mdVars, convVars, splitVars, titleVars, projectVars,
                   dirs, result, json_content,
                   raw_name, final_name, calls,
                   assets, chapter_ids, chapters, all_image_names, zip, xhtmlVars>>

\* reading project.json or a chapter file fails
ExportProjectFails ==
    /\ pc = "export_call"
    /\ pc' = "export_err"
    /\ UNCHANGED <<parserVars, mdVars, convVars, splitVars, titleVars, projectVars, storeVars,
                   outputVars>>

\* fs::write of the RTF file fails: the file is absent or partly written
ExportProjectWriteFails ==
    /\ pc = "export_call"
    /\ pc' = "export_err"
    /\ ExportRender
    /\ export_file' \in {None, Some(filename')}
    /\ UNCHANGED <<parserVars, mdVars, convVars, splitVars, titleVars, projectVars,
                   dirs, result, json_content,
                   raw_name, final_name, calls,
                   assets, chapter_ids, chapters, all_image_names, zip, xhtmlVars>>

SpecExportProject ==
    ExportProjectInit
       /\ [][ExportProject \/ ExportProjectFails \/ ExportProjectWriteFails]_vars

----------------------------------------------------------------------------
(* export_epub: the functions that build the parts of the archive *)

Contains(seq, x) == \E i \in 1..Len(seq) : seq[i] = x

\* collect_image_names_from_node: the names gathered so far, then this node's
\* own name, then its children's
RECURSIVE CollectFromNode(_, _)
RECURSIVE CollectFromNodes(_, _)
CollectFromNode(node, names) ==
    LET own == IF node.type = "imageBleed" /\ AttrOf(node, "name").some
                  /\ AttrOf(node, "name").val # <<>>
                  /\ ~Contains(names, AttrOf(node, "name").val)
               THEN Append(names, AttrOf(node, "name").val)
               ELSE names
    IN  IF ContentOf(node).some THEN CollectFromNodes(ContentOf(node).val, own) ELSE own

CollectFromNodes(children, names) ==
    IF children = <<>> THEN names
    ELSE CollectFromNodes(Tail(children), CollectFromNode(Head(children), names))

CollectImageNames(chapter_content) ==
    IF chapter_content.some /\ ContentOf(chapter_content.val).some
    THEN CollectFromNodes(ContentOf(chapter_content.val).val, <<>>)
    ELSE <<>>

\* names with the names of `more` that it does not hold yet pushed at the end
RECURSIVE PushNew(_, _)
PushNew(names, more) ==
    IF more = <<>> THEN names
    ELSE PushNew(IF Contains(names, Head(more)) THEN names ELSE Append(names, Head(more)),
                 Tail(more))

\* all_image_names over the loaded chapters
RECURSIVE AllImageNames(_, _)
AllImageNames(loaded, names) ==
    IF loaded = <<>> THEN names
    ELSE AllImageNames(Tail(loaded), PushNew(names, CollectImageNames(Head(loaded).content)))

ChapterToXhtml(title, chapter_content) ==
    LET body == IF chapter_content.some /\ ContentOf(chapter_content.val).some
                THEN RenderBlocks(ContentOf(chapter_content.val).val)
                ELSE <<>>
    IN  <<Fmt("<?xml ...<title>{title}</title>...<body>\n{body}</body>\n</html>\n",
              <<EscapeXml(title), body>>)>>

\* the characters after the last dot of the file name, if it has one inside
RECURSIVE AfterLastDot(_)
AfterLastDot(name) ==
    IF name = <<>> THEN None
    ELSE LET rest == AfterLastDot(Tail(name))
         IN  IF rest.some THEN rest
             ELSE IF Head(name) = "." THEN Some(Tail(name))
             ELSE None
\* Path::extension: none for a name without a dot or with its only dot in front
Extension(name) ==
    IF name # <<>> /\ AfterLastDot(Tail(name)).some /\ AfterLastDot(Tail(name)).val # <<>>
    THEN AfterLastDot(Tail(name)).val
    ELSE <<>>

ImageMimeForExt(ext) ==
    LET lower == ToLowercase(ext)
    IN  CASE lower \in {<<"j", "p", "g">>, <<"j", "p", "e", "g">>} -> "image/jpeg"
          [] lower = <<"p", "n", "g">> -> "image/png"
          [] lower = <<"g", "i", "f">> -> "image/gif"
          [] lower = <<"w", "e", "b", "p">> -> "image/webp"
          [] lower = <<"s", "v", "g">> -> "image/svg+xml"
          [] OTHER -> "image/jpeg"

\* char::is_alphanumeric, over the ASCII characters
Alphanumerics ==
    {"a", "b", "c", "d", "e", "f", "g", "h", "i", "j", "k", "l", "m", "n", "o", "p", "q",
     "r", "s", "t", "u", "v", "w", "x", "y", "z", "A", "B", "C", "D", "E", "F", "G", "H",
     "I", "J", "K", "L", "M", "N", "O", "P", "Q", "R", "S", "T", "U", "V", "W", "X", "Y",
     "Z", "0", "1", "2", "3", "4", "5", "6", "7", "8", "9"}
IsAlphanumeric(c) == c \in Alphanumerics
\* the manifest id of an image: every character but letters, digits and "-" is "_"
SafeId(img) ==
    [i \in 1..Len(img) |-> IF IsAlphanumeric(img[i]) \/ img[i] = "-" THEN img[i] ELSE "_"]

ChapterItem(i) ==
    Fmt("    <item id=\"ch{i:03}\" href=\"chapters/ch{i:03}.xhtml\" media-type=\"application/xhtml+xml\"/>\n",
        <<i>>)
ImageItem(img) ==
    Fmt("    <item id=\"img-{id}\" href=\"images/{img}\" media-type=\"{mime}\"/>\n",
        <<SafeId(img), EscapeXml(img), ImageMimeForExt(Extension(img))>>)

BuildOpf(title, author, uuid, modified, n, images) ==
    Fmt("<?xml ...<package ...>{uuid}{title}{author_el}{modified}<manifest>{manifest}{image_manifest}</manifest><spine>{spine}</spine></package>",
        [uuid |-> uuid, title |-> EscapeXml(title),
         author_el |-> IF author # <<>>
                       THEN <<Fmt("    <dc:creator>{}</dc:creator>\n", <<EscapeXml(author)>>)>>
                       ELSE <<>>,
         modified |-> modified,
         manifest |-> [i \in 1..n |-> ChapterItem(i)],
         image_manifest |-> [i \in 1..Len(images) |-> ImageItem(images[i])],
         spine |-> [i \in 1..n |-> Fmt("    <itemref idref=\"ch{:03}\"/>\n", <<i>>)]])

BuildNav(title, chapter_titles) ==
    Fmt("<?xml ...<title>{title}</title>...<h1>{title}</h1>\n    <ol>\n{items}    </ol>...",
        [title |-> EscapeXml(title),
         items |-> [i \in 1..Len(chapter_titles) |->
                       Fmt("      <li><a href=\"chapters/ch{:03}.xhtml\">{}</a></li>\n",
                           <<i, EscapeXml(chapter_titles[i])>>)]])

BuildNcx(title, uuid, chapter_titles) ==
    Fmt("<?xml ...<ncx ...>{uuid}...<docTitle><text>{title}</text></docTitle>...{nav_points}...</ncx>",
        [uuid |-> uuid, title |-> EscapeXml(title),
         nav_points |-> [i \in 1..Len(chapter_titles) |->
                            Fmt("    <navPoint id=\"ch{i:03}\" playOrder=\"{ord}\">...{title}...ch{i:03}.xhtml...</navPoint>\n",
                                <<i, i, EscapeXml(chapter_titles[i])>>)]])

----------------------------------------------------------------------------
(* export_epub *)

\* faulty variant: the request is exported as given
IdsToExportAsRequested(order, request) == IF request = <<>> THEN order ELSE request

\* ids_to_export: the whole order, or the ids of the order that the request contains
IdsToExport(order, request) ==
    IF request = <<>> THEN order
    ELSE SelectSeq(order, LAMBDA id : Contains(request, id))

\* the title and the content loaded for one id
LoadChapter(id, titles, files) ==
    [title |-> IF titles.some /\ id \in DOMAIN titles.val THEN titles.val[id]
               ELSE ChapterTitle(id),
     content |-> IF id \in DOMAIN files THEN files[id] ELSE None]

\* an entry of the archive: start_file(name, options) and the bytes written
Entry(name, method, data) == [name |-> name, method |-> method, data |-> data]

\* faulty variant: the mimetype entry is written with the deflated options
MimetypeEntryDeflated == Entry(Lit("mimetype"), "Deflated", <<Lit("application/epub+zip")>>)

MimetypeEntry == Entry(Lit("mimetype"), "Stored", <<Lit("application/epub+zip")>>)
ContainerEntry ==
    Entry(Lit("META-INF/container.xml"), "Deflated",
          <<Lit("<?xml ...<rootfile full-path=\"OEBPS/content.opf\" media-type=\"application/oebps-package+xml\"/>...</container>")>>)
StyleEntry == Entry(Lit("OEBPS/style.css"), "Deflated", <<Lit("EPUB_CSS")>>)

\* the image entries: one per name whose file exists in assets
RECURSIVE ImageEntries(_, _)
ImageEntries(names, existing) ==
    IF names = <<>> THEN <<>>
    ELSE (IF Head(names) \in existing
          THEN <<Entry(Fmt("OEBPS/images/{}", <<Head(names)>>), "Deflated",
                       <<[bytes_of |-> Head(names)]>>)>>
          ELSE <<>>)
            \o ImageEntries(Tail(names), existing)

ChapterEntries(loaded) ==
    [i \in 1..Len(loaded) |->
        Entry(Fmt("OEBPS/chapters/ch{:03}.xhtml", <<i>>), "Deflated",
              ChapterToXhtml(loaded[i].title, loaded[i].content))]

ChapterTitles(loaded) == [i \in 1..Len(loaded) |-> loaded[i].title]

\* the file name: the title with every character but letters, digits, "-" and
\* "_" replaced by "_", and the date
EpubFilename(title, date) ==
    [i \in 1..Len(title) |->
        IF IsAlphanumeric(title[i]) \/ title[i] \in {"-", "_"} THEN title[i] ELSE "_"]
       \o <<"_">> \o date \o <<".", "e", "p", "u", "b">>

\* what generate_epub_uuid and the clock may give
Uuids == {<<"u", "u", "i", "d">>}
Timestamps == {<<"2", "0", "2", "6", "-", "0", "1", "-", "0", "1", "T", "0", "0", ":", "0", "0", ":", "0", "0", "Z">>}

\* the image names the chapters refer to
ImageNames == {<<"a", ".", "p", "n", "g">>, <<"b", ".", "j", "p", "g">>}

\* the chapter file of an id, when present: an odd id refers to a.png twice,
\* around a colour block that holds a reference to b.jpg; an even id is text
EpubChapterFile(id) ==
    IF id % 2 = 1
    THEN Some(Doc(<<ImageBleed(Some(<<"a", ".", "p", "n", "g">>)),
                    Block("colorBleed", <<ImageBleed(Some(<<"b", ".", "j", "p", "g">>))>>),
                    ImageBleed(Some(<<"a", ".", "p", "n", "g">>))>>))
    ELSE Some(Doc(<<Block("paragraph", <<TextNode(<<"x">>, <<>>)>>)>>))

EpubInit ==
    /\ pc = "epub_call"
    /\ ParserInit
    /\ MdLocalsInit
    /\ ConvIdle
    /\ SplitIdle
    /\ TitleIdle
    /\ ImportIdle
    /\ last_assigned = <<>>
    /\ max_assigned = 0
    /\ n_calls = 0
    /\ \E order \in ExportOrders :
          project_json = Some(Book(BookTitle, <<"A">>, order,
                                   Some([id \in {1} |-> <<"T", "&">>])))
    /\ \E present \in SUBSET ChapterIds :
          chapter_files = [id \in present |-> EpubChapterFile(id)]
    /\ assets \in SUBSET ImageNames
    /\ chapter_ids \in Requests
    /\ ids_to_export = <<>>
    /\ chapters = <<>>
    /\ all_image_names = <<>>
    /\ zip = <<>>
    /\ rtf_content = <<>>
    /\ filename = <<>>
    /\ XhtmlIdle
    /\ StoreIdle

\* project.json is read, the ids are resolved and the chapters loaded
EpubLoad ==
    /\ pc = "epub_call"
    /\ pc' = "epub_loaded"
    /\ LET project == project_json.val
           ids == IdsToExport(project.chapterOrder, chapter_ids)
       IN  /\ ids_to_export' = ids
           /\ chapters' = [i \in 1..Len(ids) |->
                              LoadChapter(ids[i], project.chapterTitles, chapter_files)]
    /\ UNCHANGED <<parserVars, mdVars, convVars, splitVars, titleVars, projectVars, storeVars,
                   assets, chapter_ids, all_image_names, zip, rtf_content, filename,
                   xhtmlVars>>

\* the file is created; mimetype, the container descriptor and the stylesheet
\* are written, the image names collected in between
EpubOpen ==
    /\ pc = "epub_loaded"
    /\ pc' = "epub_images"
    /\ \E date \in Dates : filename' = EpubFilename(project_json.val.title, date)
    /\ all_image_names' = AllImageNames(chapters, <<>>)
    /\ zip' = <<MimetypeEntry, ContainerEntry, StyleEntry>>
    /\ export_file' = Some(filename')
    /\ UNCHANGED <<parserVars, mdVars, convVars, splitVars, titleVars, projectVars,
                   dirs, result, json_content,
                   raw_name, final_name, calls,
                   assets, chapter_ids, ids_to_export, chapters, rtf_content, xhtmlVars>>

\* for img_name in &all_image_names
EpubImages ==
    /\ pc = "epub_images"
    /\ pc' = "epub_chapters"
    /\ zip' = zip \o ImageEntries(all_image_names, assets)
    /\ UNCHANGED <<parserVars, mdVars, convVars, splitVars, titleVars, projectVars, storeVars,
                   assets, chapter_ids, ids_to_export, chapters, all_image_names,
                   rtf_content, filename, xhtmlVars>>

\* for (i, (title, content)) in chapters.iter().enumerate()
EpubChapters ==
    /\ pc = "epub_chapters"
    /\ pc' = "epub_tail"
    /\ zip' = zip \o ChapterEntries(chapters)
    /\ UNCHANGED <<parserVars, mdVars, convVars, splitVars, titleVars, projectVars, storeVars,
                   assets, chapter_ids, ids_to_export, chapters, all_image_names,
                   rtf_content, filename, xhtmlVars>>

\* nav.xhtml, toc.ncx and content.opf are written and the archive finished
EpubFinish ==
    /\ pc = "epub_tail"
    /\ pc' = "epub_done"
    /\ \E uuid \in Uuids, modified \in Timestamps :
          LET project == project_json.val
          IN  zip' = zip \o
                 <<Entry(Lit("OEBPS/nav.xhtml"), "Deflated",
                         <<BuildNav(project.title, ChapterTitles(chapters))>>),
                   Entry(Lit("OEBPS/toc.ncx"), "Deflated",
                         <<BuildNcx(project.title, uuid, ChapterTitles(chapters))>>),
                   Entry(Lit("OEBPS/content.opf"), "Deflated",
                         <<BuildOpf(project.title, project.author, uuid, modified,
                                    Len(chapters), all_image_names)>>)>>
    /\ UNCHANGED <<parserVars, mdVars, convVars, splitVars, titleVars, projectVars, storeVars,
                   assets, chapter_ids, ids_to_export, chapters, all_image_names,
                   rtf_content, filename, xhtmlVars>>

\* a read or a write fails: the call returns Err and the archive stays as far
\* as it was written
EpubFails ==
    /\ pc \in {"epub_call", "epub_loaded", "epub_images", "epub_chapters", "epub_tail"}
    /\ pc' = "epub_err"
    /\ UNCHANGED <<parserVars, mdVars, convVars, splitVars, titleVars, projectVars, storeVars,
                   outputVars>>

EpubNext == EpubLoad \/ EpubOpen \/ EpubImages \/ EpubChapters \/ EpubFinish \/ EpubFails

SpecEpub == EpubInit /\ [][EpubNext]_vars

----------------------------------------------------------------------------
(* load_project, save_chapter, save_project, update_export_dir and         *)
(* rename_chapter on one project directory.  The text of a file is modelled *)
(* by what serde_json::from_str makes of it: Unparsable for text that is no *)
(* JSON, else the JSON value, an object being a function from its keys.     *)

Unparsable == [unparsable |-> TRUE]
JsonNull == [null |-> TRUE]

\* Value::as_object / as_object_mut give Some
IsObject(v) == v # Unparsable /\ v # JsonNull

\* faulty variant: the submitted object replaces the existing one
OverlayReplacing(merged, new_obj) ==
    new_obj

\* for (key, value) in new_obj { merged_obj.insert(key.clone(), value.clone()) }
Overlay(merged, new_obj) ==
    [key \in DOMAIN merged \cup DOMAIN new_obj |->
        IF key \in DOMAIN new_obj THEN new_obj[key] ELSE merged[key]]

\* serde_json::json!({})
EmptyObject == [key \in {} |-> <<>>]

\* IndexMut<&str> for Value: assigning to a key of null makes it an object
ObjectOf(v) == IF v = JsonNull THEN EmptyObject ELSE v

\* everything the commands of this section leave alone
notStoreVars ==
    <<parserVars, mdVars, convVars, splitVars, titleVars, importArgs, files_done,
      next_id, imported_chapters, last_assigned, max_assigned, assets, chapter_ids,
      ids_to_export, all_image_names, zip, rtf_content, filename, xhtmlVars,
      raw_name, final_name, export_file, calls>>

StorePcs ==
    {"store_idle", "load_project", "save_chapter", "save_project", "update_export_dir",
     "rename_chapter"}

\* a command is called and runs to its return; pc names the command that
\* returned last
StoreCall(command) ==
    /\ pc \in StorePcs
    /\ n_calls < MaxStoreCalls
    /\ n_calls' = n_calls + 1
    /\ pc' = command

\* the fields serde needs to build a Project
ProjectFields == {"title", "author", "chapterOrder"}

\* the chapter load_project builds from chapters/<id>.json
LoadedChapter(id, chapter_titles) ==
    [id |-> id,
     title |-> IF id \in DOMAIN chapter_titles THEN chapter_titles[id] ELSE ChapterTitle(id),
     content |-> IF chapter_files[id] = Unparsable THEN None ELSE Some(chapter_files[id])]

\* the ids of `ids` in the order of chapter_order, the others after them
RECURSIVE InOrder(_, _)
InOrder(chapter_order, ids) ==
    IF chapter_order = <<>> THEN <<>>
    ELSE (IF Head(chapter_order) \in ids THEN <<Head(chapter_order)>> ELSE <<>>)
            \o InOrder(Tail(chapter_order), ids \ {Head(chapter_order)})

RECURSIVE Ascending(_)
Ascending(ids) ==
    IF ids = {} THEN <<>>
    ELSE LET least == CHOOSE i \in ids : \A j \in ids : i <= j
         IN  <<least>> \o Ascending(ids \ {least})

LoadProject ==
    /\ StoreCall("load_project")
    /\ IF ~project_json.some \/ ~IsObject(project_json.val)
          \/ ~(ProjectFields \subseteq DOMAIN project_json.val)
       THEN result' = "Err" /\ chapters' = <<>>
       ELSE LET data == project_json.val
                chapter_titles ==
                    IF "chapterTitles" \in DOMAIN data THEN data.chapterTitles ELSE <<>>
                ids == IF "chapters" \in dirs THEN DOMAIN chapter_files ELSE {}
                sorted == InOrder(data.chapterOrder, ids)
                             \o Ascending(ids \ Range(data.chapterOrder))
            IN  /\ result' = "Ok"
                /\ chapters' = [i \in 1..Len(sorted) |-> LoadedChapter(sorted[i], chapter_titles)]
    /\ UNCHANGED <<diskVars, dirs, project_data, json_content, notStoreVars>>

\* what the frontend may submit as a chapter's content
ChapterContents == {Unparsable, Doc(<<EmptyParagraph>>)}

SaveChapter ==
    /\ StoreCall("save_chapter")
    /\ dirs' = dirs \cup {"chapters"}
    /\ \E chapter_id \in 1..MaxStoreId, text_given \in ChapterContents :
          /\ json_content' = text_given
          /\ IF text_given = Unparsable
             THEN result' = "Err" /\ chapter_files' = chapter_files
             ELSE result' = "Ok" /\ chapter_files' = Put(chapter_files, chapter_id, text_given)
    /\ UNCHANGED <<project_json, project_data, chapters, notStoreVars>>

\* what the frontend may submit as project_data
SubmittedData ==
    {[title |-> <<"U">>, author |-> <<>>, chapterOrder |-> <<1>>],
     [title |-> <<"U">>],
     [chapterTitles |-> EmptyObject],
     JsonNull}

SaveProject ==
    /\ StoreCall("save_project")
    /\ \E data \in SubmittedData :
          /\ project_data' = Some(data)
          /\ LET merged == IF project_json.some /\ project_json.val # Unparsable
                           THEN project_json.val ELSE EmptyObject
             IN  project_json' =
                    Some(IF IsObject(merged) /\ IsObject(data) THEN Overlay(merged, data)
                         ELSE data)
    /\ result' = "Ok"
    /\ UNCHANGED <<chapter_files, dirs, json_content, chapters, notStoreVars>>

\* a command that rewrites project.json: Err when the file is missing or is
\* no JSON, else the changed object is written
Rewrite(changed) ==
    IF ~project_json.some \/ project_json.val = Unparsable
    THEN result' = "Err" /\ project_json' = project_json
    ELSE result' = "Ok" /\ project_json' = Some(changed)

UpdateExportDir ==
    /\ StoreCall("update_export_dir")
    /\ \E new_export_dir \in {<<"d">>} :
          Rewrite(Overlay(ObjectOf(project_json.val), [exportDir |-> new_export_dir]))
    /\ UNCHANGED <<chapter_files, dirs, project_data, json_content, chapters, notStoreVars>>

RenameChapter ==
    /\ StoreCall("rename_chapter")
    /\ \E chapter_id \in 1..MaxStoreId, new_title \in {<<"N">>} :
          LET project == ObjectOf(project_json.val)
              titles == IF "chapterTitles" \in DOMAIN project
                        THEN project.chapterTitles ELSE EmptyObject
          IN  Rewrite(Overlay(project, [chapterTitles |-> Put(titles, chapter_id, new_title)]))
    /\ UNCHANGED <<chapter_files, dirs, project_data, json_content, chapters, notStoreVars>>

\* the project directories the commands may find: no project.json, text that
\* is no JSON, the project create_project writes, a project of one chapter
StoredProjects ==
    {None, Some(Unparsable),
     Some([title |-> <<"T">>, author |-> <<>>, chapterOrder |-> <<>>]),
     Some([title |-> <<"T">>, author |-> <<>>, chapterOrder |-> <<1>>,
           chapterTitles |-> <<<<"A">>>>])}
StoredChapters == {<<>>, <<Doc(<<EmptyParagraph>>)>>, <<Unparsable>>}

StoreInit ==
    /\ pc = "store_idle"
    /\ ParserInit
    /\ MdLocalsInit
    /\ ConvIdle
    /\ SplitIdle
    /\ TitleIdle
    /\ ImportIdle
    /\ ExportIdle
    /\ XhtmlIdle
    /\ last_assigned = <<>>
    /\ max_assigned = 0
    /\ n_calls = 0
    /\ project_json \in StoredProjects
    /\ \/ dirs = {} /\ chapter_files = <<>>
       \/ dirs = {"chapters"} /\ chapter_files \in StoredChapters
    /\ result = "none"
    /\ json_content = <<>>
    /\ raw_name = <<>>
    /\ final_name = <<>>
    /\ export_file = None
    /\ calls = <<>>

StoreNext == LoadProject \/ SaveChapter \/ SaveProject \/ UpdateExportDir \/ RenameChapter

SpecStore == StoreInit /\ [][StoreNext]_vars

----------------------------------------------------------------------------
(* copy_asset_and_encode *)

\* every character but letters, digits, ".", "-" and "_" becomes "_"
SafeName(name) ==
    [i \in 1..Len(name) |->
        IF IsAlphanumeric(name[i]) \/ name[i] \in {".", "-", "_"} THEN name[i] ELSE "_"]

\* Path::extension as an Option: "a." has the empty extension, ".p" has none
PathExtension(name) ==
    IF name # <<>> /\ AfterLastDot(Tail(name)).some
    THEN Some(AfterLastDot(Tail(name)).val) ELSE None

\* ext: the extension with its dot, or nothing
DottedExt(safe_name) ==
    IF PathExtension(safe_name).some THEN <<".">> \o PathExtension(safe_name).val ELSE <<>>

\* stem: safe_name without ext
Stem(safe_name) == SubSeq(safe_name, 1, Len(safe_name) - Len(DottedExt(safe_name)))

\* format!("{}_{}{}", stem, n, ext)
Numbered(safe_name, n) ==
    Stem(safe_name) \o <<"_">> \o FormatNat(n) \o DottedExt(safe_name)

\* loop { if !c.exists() { break c; } n += 1; }
RECURSIVE FirstFree(_, _, _)
FirstFree(safe_name, n, existing) ==
    IF Numbered(safe_name, n) \notin existing THEN Numbered(safe_name, n)
    ELSE FirstFree(safe_name, n + 1, existing)

\* faulty variant: the sanitized name is taken whether or not it is in use
DestNameUnchecked(safe_name, existing) ==
    safe_name

\* dest_path: the candidate if it is free, else the first free numbered name
DestName(safe_name, existing) ==
    IF safe_name \notin existing THEN safe_name ELSE FirstFree(safe_name, 1, existing)

\* the file names of the images a caller may pass
RawNames ==
    {<<"a", ".", "p">>, <<"a", " ", "b", ".", "p">>, <<"a", "_", "b", ".", "p">>,
     <<"a", "_", "1", ".", "p">>, <<"a">>, <<".", "p">>, <<"a", ".">>}

\* the assets directories the calls may find
StoredAssets == {{}, {<<"a", ".", "p">>}, {<<"a", ".", "p">>, <<"a", "_", "1", ".", "p">>}}

\* everything copy_asset_and_encode leaves alone
notAssetVars ==
    <<parserVars, mdVars, convVars, splitVars, titleVars, diskVars, importArgs,
      importLocals, last_assigned, max_assigned, chapter_ids, ids_to_export, chapters,
      all_image_names, zip, rtf_content, filename, xhtmlVars, json_content, export_file,
      calls>>

AssetCall ==
    /\ pc \in {"assets_idle", "copy_asset"}
    /\ n_calls < MaxAssetCalls
    /\ n_calls' = n_calls + 1
    /\ pc' = "copy_asset"
    /\ dirs' = dirs \cup {"assets"}
    /\ raw_name' \in RawNames

\* the call runs to Ok: the image is stored under dest_path's name
CopyAssetAndEncode ==
    /\ AssetCall
    /\ final_name' = DestName(SafeName(raw_name'), assets)
    /\ assets' = assets \cup {final_name'}
    /\ result' = "Ok"
    /\ UNCHANGED notAssetVars

\* fs::read of the image fails, or fs::write fails and leaves dest_path
\* absent or partly written
CopyAssetFails ==
    /\ AssetCall
    /\ assets' \in {assets, assets \cup {DestName(SafeName(raw_name'), assets)}}
    /\ final_name' = <<>>
    /\ result' = "Err"
    /\ UNCHANGED notAssetVars

AssetsInit ==
    /\ pc = "assets_idle"
    /\ ParserInit
    /\ MdLocalsInit
    /\ ConvIdle
    /\ SplitIdle
    /\ TitleIdle
    /\ ProjectIdle
    /\ chapter_ids = <<>>
    /\ ids_to_export = <<>>
    /\ chapters = <<>>
    /\ all_image_names = <<>>
    /\ zip = <<>>
    /\ rtf_content = <<>>
    /\ filename = <<>>
    /\ XhtmlIdle
    /\ assets \in StoredAssets
    /\ dirs = IF assets = {} THEN {} ELSE {"assets"}
    /\ result = "none"
    /\ json_content = <<>>
    /\ raw_name = <<>>
    /\ final_name = <<>>
    /\ export_file = None
    /\ calls = <<>>

SpecAssets == AssetsInit /\ [][CopyAssetAndEncode \/ CopyAssetFails]_vars

----------------------------------------------------------------------------
(* Two invocations of import_chapters on one project, with no lock between  *)
(* them: each has its own locals in `calls`, both share project.json and    *)
(* the chapters directory.  A step is what one invocation does between two  *)
(* accesses to the disk.                                                    *)

Invocations == {1, 2}
Other(c) == 3 - c

\* the file_paths each invocation is called with
PathChoices ==
    [Invocations ->
        {<<>>,
         <<[stem |-> <<"A">>, extension |-> "txt", content |-> <<"x">>]>>,
         <<[stem |-> <<"B">>, extension |-> "md", content |-> <<"y">>],
           [stem |-> <<"C">>, extension |-> "txt", content |-> <<"z">>]>>}]

NotCalled(paths) ==
    [pc |-> "call", file_paths |-> paths, files_done |-> 0, project_data |-> None,
     next_id |-> 0, used_titles |-> {}, imported_chapters |-> <<>>,
     after_other |-> FALSE, finished |-> 0]

\* everything the invocations leave alone
notCallVars ==
    <<parserVars, mdVars, convVars, splitVars, titleVars, importArgs, importLocals,
      historyVars, outputVars, result, json_content, raw_name, final_name, export_file>>

\* the invocation creates chapters/, reads project.json and sets up its locals
InvocationBegin(c) ==
    /\ pc = "overlap"
    /\ calls[c].pc = "call"
    /\ dirs' = dirs \cup {"chapters"}
    /\ LET data == IF project_json.some THEN project_json.val ELSE Project(<<>>, None)
       IN  calls' = [calls EXCEPT ![c] =
                        [@ EXCEPT !.pc = "files",
                                  !.project_data = Some(data),
                                  !.next_id = MaxOr0(data.chapterOrder) + 1,
                                  !.used_titles = LowerTitles(data),
                                  !.after_other = calls[Other(c)].pc = "done"]]
    /\ UNCHANGED <<pc, diskVars, notCallVars>>

\* the invocation's locals and the chapters directory, as its section loop
\* sees them
InvocationState(c) ==
    [used_titles |-> calls[c].used_titles, next_id |-> calls[c].next_id,
     imported_chapters |-> calls[c].imported_chapters,
     project_data |-> calls[c].project_data,
     chapter_files |-> chapter_files, assigned |-> <<>>]

\* the invocation reads its next file and writes a chapter file per section
InvocationFile(c) ==
    /\ pc = "overlap"
    /\ calls[c].pc = "files"
    /\ calls[c].files_done < Len(calls[c].file_paths)
    /\ LET file == calls[c].file_paths[calls[c].files_done + 1]
           st == ImportSections(InvocationState(c), FileSections(file), file.extension)
       IN  /\ chapter_files' = st.chapter_files
           /\ calls' = [calls EXCEPT ![c] =
                           [@ EXCEPT !.files_done = @ + 1,
                                     !.used_titles = st.used_titles,
                                     !.next_id = st.next_id,
                                     !.imported_chapters = st.imported_chapters,
                                     !.project_data = st.project_data]]
    /\ UNCHANGED <<pc, project_json, dirs, notCallVars>>

\* how many invocations have returned Ok
Finished == Cardinality({c \in Invocations : calls[c].pc = "done"})

\* what the invocation writes to project.json
FinalProject(c) ==
    LET data == calls[c].project_data.val
        titles == IF data.chapterTitles.some THEN data.chapterTitles.val ELSE <<>>
    IN  IF calls[c].imported_chapters # <<>>
        THEN [data EXCEPT
                 !.chapterTitles = Some(WithTitles(titles, calls[c].imported_chapters))]
        ELSE data

\* faulty variant: project.json is read again and the new entries are added
\* to what it holds now
InvocationFinishMerging(c) ==
    /\ pc = "overlap"
    /\ calls[c].pc = "files"
    /\ calls[c].files_done = Len(calls[c].file_paths)
    /\ LET now == project_json.val
           titles == IF now.chapterTitles.some THEN now.chapterTitles.val ELSE <<>>
           ids == [i \in 1..Len(calls[c].imported_chapters) |->
                      calls[c].imported_chapters[i].id]
       IN  project_json' =
              Some([chapterOrder |-> now.chapterOrder \o ids,
                    chapterTitles |-> Some(WithTitles(titles, calls[c].imported_chapters))])
    /\ calls' = [calls EXCEPT ![c] = [@ EXCEPT !.pc = "done", !.finished = Finished + 1]]
    /\ UNCHANGED <<pc, chapter_files, dirs, notCallVars>>

\* file_paths is exhausted: the invocation writes project.json and returns Ok
InvocationFinish(c) ==
    /\ pc = "overlap"
    /\ calls[c].pc = "files"
    /\ calls[c].files_done = Len(calls[c].file_paths)
    /\ project_json' = Some(FinalProject(c))
    /\ calls' = [calls EXCEPT ![c] = [@ EXCEPT !.pc = "done", !.finished = Finished + 1]]
    /\ UNCHANGED <<pc, chapter_files, dirs, notCallVars>>

\* fs::read_to_string fails on the invocation's next file: it returns Err
InvocationFails(c) ==
    /\ pc = "overlap"
    /\ calls[c].pc = "files"
    /\ calls[c].files_done < Len(calls[c].file_paths)
    /\ calls' = [calls EXCEPT ![c] = [@ EXCEPT !.pc = "failed"]]
    /\ UNCHANGED <<pc, diskVars, dirs, notCallVars>>

OverlapInit ==
    /\ pc = "overlap"
    /\ ParserInit
    /\ MdLocalsInit
    /\ ConvIdle
    /\ SplitIdle
    /\ TitleIdle
    /\ use_filename_as_title = TRUE
    /\ chapter_delimiter = None
    /\ extract_title_from_delimiter = FALSE
    /\ files_done = 0
    /\ project_data = None
    /\ next_id = 0
    /\ imported_chapters = <<>>
    /\ ExportIdle
    /\ XhtmlIdle
    /\ n_calls = 0
    /\ last_assigned = <<>>
    /\ \E p \in InitialProjects :
          /\ project_json = p.json
          /\ chapter_files = p.files
          /\ max_assigned = MaxOr0(p.ids)
    /\ dirs = {"chapters"}
    /\ result = "none"
    /\ json_content = <<>>
    /\ raw_name = <<>>
    /\ final_name = <<>>
    /\ export_file = None
    /\ \E paths \in PathChoices : calls = [c \in Invocations |-> NotCalled(paths[c])]

OverlapNext ==
    \E c \in Invocations :
       \/ InvocationBegin(c)
       \/ InvocationFile(c)
       \/ InvocationFinish(c)
       \/ InvocationFails(c)

SpecOverlap == OverlapInit /\ [][OverlapNext]_vars

----------------------------------------------------------------------------
(* Claims about markdown_to_tiptap_json and text_to_tiptap_json *)

\* `new` is `old` with exactly one element appended
AppendedOne(old, new) == Len(new) = Len(old) + 1 /\ SubSeq(new, 1, Len(old)) = old

BlockTags == {"Paragraph", "Heading", "CodeBlock", "List", "BlockQuote"}

\* the step handles the end of a block that completes a node
BlockEndStep ==
    /\ pc = "md_loop"
    /\ event'.kind = "End"
    /\ Top \in BlockTags
    /\ open' = SubSeq(open, 1, Len(open) - 1)
    /\ CASE Top = "Paragraph" -> current_paragraph.some /\ current_paragraph.val # <<>>
         [] Top = "List" -> list_stack # <<>> /\ list_stack[Len(list_stack)].items # <<>>
         [] Top = "BlockQuote" -> blockquote_content # <<>>
         [] OTHER -> TRUE

GrewRoot == AppendedOne(content, content')
GrewBlockquote == AppendedOne(blockquote_content, blockquote_content')
GrewItem ==
    /\ list_item_content.some
    /\ list_item_content'.some
    /\ AppendedOne(list_item_content.val, list_item_content'.val)

\* C1: at every block-end event the completed node is appended to exactly one
\* destination: the open block quote's accumulator if a block quote is open
\* around the block, otherwise the pending list item if a list item is open
\* around it, otherwise the document root.
C1_BlockEndDestination ==
    [][BlockEndStep =>
         IF "BlockQuote" \in Range(open') THEN GrewBlockquote /\ ~GrewRoot /\ ~GrewItem
         ELSE IF "Item" \in Range(open') THEN GrewItem /\ ~GrewRoot /\ ~GrewBlockquote
         ELSE GrewRoot /\ ~GrewItem /\ ~GrewBlockquote]_vars

ItemEndStep == pc = "md_loop" /\ Top = "Item" /\ event' = Ev("End", "Item")

\* C2: every list-item end adds exactly one listItem node to the list the item
\* belongs to (the innermost open list); the node's content is never empty.
C2_ItemYieldsOneListItem ==
    [][ItemEndStep =>
         /\ Len(list_stack') = Len(list_stack)
         /\ list_stack # <<>>
         /\ \A i \in 1..Len(list_stack) :
               IF i = Len(list_stack)
               THEN /\ AppendedOne(list_stack[i].items, list_stack'[i].items)
                    /\ LET node == list_stack'[i].items[Len(list_stack'[i].items)]
                       IN  node.type = "listItem" /\ node.content # <<>>
               ELSE list_stack'[i] = list_stack[i]]_vars

LeafStep ==
    /\ pc = "md_loop"
    /\ event'.kind \in {"Text", "Code"}
    /\ nEvents' = nEvents + 1

\* the run a leaf step appended to the heading buffer or to the open paragraph
NewRun ==
    IF AppendedOne(heading_content, heading_content')
    THEN heading_content'[Len(heading_content')]
    ELSE current_paragraph'.val[Len(current_paragraph'.val)]

\* C3: each text or code leaf goes to exactly one of the code-block buffer, the
\* heading buffer and the open paragraph, in that priority order; the run it
\* creates is bold exactly when a strong span is open, italic exactly when an
\* emphasis span is open, and code exactly when it is a code leaf.
C3_LeafRoutingAndMarks ==
    [][LeafStep =>
         LET toCode == code_block_content' = code_block_content \o LeafText
             toHeading == AppendedOne(heading_content, heading_content')
             toParagraph == /\ current_paragraph.some
                            /\ current_paragraph'.some
                            /\ AppendedOne(current_paragraph.val, current_paragraph'.val)
         IN  /\ IF in_code_block THEN toCode /\ ~toHeading /\ ~toParagraph
                ELSE IF heading_level > 0 THEN toHeading /\ ~toCode /\ ~toParagraph
                ELSE IF current_paragraph.some THEN toParagraph /\ ~toCode /\ ~toHeading
                ELSE ~toCode /\ ~toHeading /\ ~toParagraph
             /\ (toHeading \/ toParagraph) =>
                   /\ HasMark(NewRun, "bold") <=> "Strong" \in Range(open)
                   /\ HasMark(NewRun, "italic") <=> "Emphasis" \in Range(open)
                   /\ HasMark(NewRun, "code") <=> event'.kind = "Code"]_vars

ContainerTypes == {"blockquote", "bulletList", "orderedList", "listItem"}

\* every blockquote, list and list-item node in and below `node` has children
RECURSIVE NonEmptyContainers(_)
NonEmptyContainers(node) ==
    IF node.type \in ContainerTypes \cup {"doc"}
    THEN /\ node.content # <<>>
         /\ \A i \in 1..Len(node.content) : NonEmptyContainers(node.content[i])
    ELSE TRUE

\* C4: the root content either converter returns is never empty; every
\* blockquote, list and list-item node the Markdown converter builds has a
\* non-empty child sequence; an input that produces no block (whitespace-only
\* text, an event stream that left the root empty) yields exactly one paragraph
\* with empty content.
C4_NeverEmpty ==
    /\ \A i \in 1..Len(content) : NonEmptyContainers(content[i])
    /\ pc \in {"md_done", "text_done"} => NonEmptyContainers(doc)
    /\ (pc = "md_done" /\ content = <<>>) => doc.content = <<EmptyParagraph>>
    /\ (pc = "text_done" /\ Trim(text) = <<>>) => doc.content = <<EmptyParagraph>>

\* a block quote with nothing in it ended, no blockquote node was built, and
\* the converter returned the one-empty-paragraph document
C4_Witness ==
    /\ pc = "md_done"
    /\ event = Ev("End", "BlockQuote")
    /\ doc.content = <<EmptyParagraph>>

----------------------------------------------------------------------------
(* Claims about make_unique_title *)

\* C7: make_unique_title returns the candidate unchanged when its lowercase
\* form is not in the set, and otherwise "<candidate> (n)" for the smallest
\* n >= 1 whose lowercase form is not in the set; the lowercase form of the
\* returned title is never in the set.
C7_MakeUniqueTitle ==
    pc = "title_done" =>
        /\ ToLowercase(section_title) \notin used_titles
        /\ ToLowercase(raw_title) \notin used_titles => section_title = raw_title
        /\ ToLowercase(raw_title) \in used_titles =>
              \E n \in 1..(Cardinality(used_titles) + 1) :
                 /\ section_title = raw_title \o <<" ", "(">> \o FormatNat(n) \o <<")">>
                 /\ \A m \in 1..(n - 1) :
                       ToLowercase(raw_title \o <<" ", "(">> \o FormatNat(m) \o <<")">>)
                          \in used_titles

\* "A" with "a" and "a (1)" in use came back as "A (2)"
C7_Witness ==
    /\ pc = "title_done"
    /\ raw_title = <<"A">>
    /\ section_title = <<"A", " ", "(", "2", ")">>

----------------------------------------------------------------------------
(* Claims about split_by_delimiter, stated on the lines of the input *)

InputLines == Lines(split_content)
\* the lines that start with the delimiter
DelimiterLines == {i \in 1..Len(InputLines) : StartsWith(InputLines[i], delimiter)}
\* the delimiter line after line i, or the end of the input
NextDelimiter(i) ==
    IF \E j \in DelimiterLines : j > i
    THEN CHOOSE j \in DelimiterLines : j > i /\ \A l \in DelimiterLines : l > i => j <= l
    ELSE Len(InputLines) + 1
\* the trimmed join of the lines between delimiter line i and the next one
Body(i) == Trim(Join(SubSeq(InputLines, i + 1, NextDelimiter(i) - 1), <<"\n">>))
\* the trimmed text after the delimiter on line i
Remainder(i) == Trim(SubSeq(InputLines[i], Len(delimiter) + 1, Len(InputLines[i])))
\* the k-th smallest element of a set of line numbers
Kth(S, k) == CHOOSE i \in S : Cardinality({j \in S : j < i}) = k - 1
\* the delimited sections that are not suppressed
Kept ==
    IF extract_titles THEN {i \in DelimiterLines : Body(i) # <<>>} ELSE DelimiterLines

\* the returned contents are the bodies of some delimited sections, in order
ContentsAreBodies ==
    \E K \in SUBSET DelimiterLines :
       /\ Cardinality(K) = Len(sections)
       /\ \A k \in 1..Len(sections) : sections[k].content = Body(Kth(K, k))

\* C8 as claimed: whenever some line starts with the delimiter, every returned
\* section's content is the trimmed join of the non-delimiter lines between
\* its delimiter line and the next; no line before the first delimiter and no
\* delimiter line is in any content.
C8_Original ==
    (pc = "split_done" /\ DelimiterLines # {}) => ContentsAreBodies

\* C8 amended: the same, for the inputs in which at least one delimited
\* section is kept; when every delimited section is suppressed, the whole
\* input comes back as the one section "Chapter 1".
C8_SectionContents ==
    /\ (pc = "split_done" /\ Kept # {}) => ContentsAreBodies
    /\ (pc = "split_done" /\ Kept = {}) =>
          sections = <<Section(ChapterTitle(1), split_content)>>

\* a line before the first delimiter was discarded and two sections returned
C8_Witness ==
    /\ pc = "split_done"
    /\ DelimiterLines # {}
    /\ 1 \notin DelimiterLines
    /\ Trim(InputLines[1]) # <<>>
    /\ Len(sections) = 2
    /\ sections[1].content # <<>>

\* C9: a generated title "Chapter N" carries the 1-based position of its
\* section in the returned list: with extraction disabled the k-th section is
\* "Chapter k"; with extraction enabled the k-th section is titled by the
\* trimmed remainder of its delimiter line, or "Chapter k" if that is empty.
C9_GeneratedTitles ==
    pc = "split_done" =>
        \A k \in 1..Len(sections) :
           IF Kept = {} THEN sections[k].title = ChapterTitle(k)
           ELSE LET i == Kth(Kept, k)
                IN  sections[k].title =
                       IF extract_titles /\ Remainder(i) # <<>> THEN Remainder(i)
                       ELSE ChapterTitle(k)

\* with extraction on, a suppressed section came before a kept section whose
\* delimiter line has no title: that one is returned first, as "Chapter 1"
C9_Witness ==
    /\ pc = "split_done"
    /\ extract_titles
    /\ Cardinality(DelimiterLines) = 2
    /\ Cardinality(Kept) = 1
    /\ Kth(DelimiterLines, 1) \notin Kept
    /\ sections = <<Section(ChapterTitle(1), <<"a">>)>>

\* the returned sections are exactly the kept delimited sections, in order
ReturnsKept ==
    /\ Len(sections) = Cardinality(Kept)
    /\ \A k \in 1..Len(sections) : sections[k].content = Body(Kth(Kept, k))

\* the whole input came back as one section
ReturnsWholeInput == Len(sections) = 1 /\ sections[1].content = split_content

\* C10 as claimed: with extraction enabled a delimited section is returned
\* exactly when its trimmed content is non-empty; with extraction disabled
\* every delimited section is returned, so the number of returned sections
\* equals the number of delimiter lines in the input.
C10_Original ==
    pc = "split_done" =>
        /\ extract_titles => (ReturnsKept \/ (Kept = {} /\ ReturnsWholeInput))
        /\ ~extract_titles => Len(sections) = Cardinality(DelimiterLines)

\* C10 amended: the count equals the number of delimiter lines when the input
\* has at least one; with none, the whole input is returned as one section.
C10_Suppression ==
    pc = "split_done" =>
        IF Kept # {} THEN ReturnsKept ELSE ReturnsWholeInput

\* with extraction off two sections came back, the first of them empty
C10_Witness ==
    /\ pc = "split_done"
    /\ ~extract_titles
    /\ Len(sections) = 2
    /\ sections[1].content = <<>>
    /\ sections[2].content # <<>>

----------------------------------------------------------------------------
(* Claims about import_chapters and delete_chapter *)

NoDuplicates(seq) == \A i, j \in 1..Len(seq) : i # j => seq[i] # seq[j]

\* C5: chapter ids are unique and assigned monotonically: chapterOrder never
\* holds an id twice, and every id a step gives to a new chapter is greater
\* than every id given to a chapter of the project before, deleted or not.
C5_IdsUniqueAndMonotone ==
    [][/\ project_json'.some => NoDuplicates(project_json'.val.chapterOrder)
       /\ \A i \in 1..Len(last_assigned') : last_assigned'[i] > max_assigned]_vars

\* the values of a title map differ pairwise, ignoring case
DistinctIgnoringCase(titles) ==
    \A i, j \in DOMAIN titles : i # j => ToLowercase(titles[i]) # ToLowercase(titles[j])

\* C6: the titles recorded in project.json stay pairwise distinct ignoring
\* case, and every title a running import has assigned differs, ignoring case,
\* from every recorded title and from every other title of the same call.
C6_TitlesDistinct ==
    /\ (project_json.some /\ project_json.val.chapterTitles.some) =>
          DistinctIgnoringCase(project_json.val.chapterTitles.val)
    /\ pc = "import_files" =>
          /\ DistinctIgnoringCase([i \in 1..Len(imported_chapters) |->
                                      imported_chapters[i].title])
          /\ \A i \in 1..Len(imported_chapters) :
                project_json.some =>
                   ToLowercase(imported_chapters[i].title) \notin LowerTitles(project_json.val)

\* one call imported A.txt and then a.md under their file names into the new
\* project: the second title was taken ignoring case and became "a (1)"
C6_Witness ==
    /\ pc = "idle"
    /\ n_calls = 1
    /\ project_json = Some(Project(<<1, 2>>,
                                   Some(<<<<"A">>, <<"a", " ", "(", "1", ")">>>>)))
    /\ chapter_files[2].converter = "markdown_to_tiptap_json"

----------------------------------------------------------------------------
(* Claims about escape_xml, render_inline and render_blocks *)

\* what one character of the input stands for in the escaped text
Entity(c) ==
    CASE c = "&" -> <<"&", "a", "m", "p", ";">>
      [] c = "<" -> <<"&", "l", "t", ";">>
      [] c = ">" -> <<"&", "g", "t", ";">>
      [] c = "\"" -> <<"&", "q", "u", "o", "t", ";">>
      [] OTHER -> <<c>>

RECURSIVE EntitiesOf(_)
EntitiesOf(s) == IF s = <<>> THEN <<>> ELSE Entity(Head(s)) \o EntitiesOf(Tail(s))

\* C19: escape_xml returns its input with each &, <, > and " replaced, once,
\* by &amp;, &lt;, &gt; and &quot;, and every other character kept in place.
C19_EscapeXml == pc = "escape_done" => out = EntitiesOf(xml_s)

\* the input <b>&" was escaped to &lt;b&gt;&amp;&quot;
C19_Witness ==
    /\ pc = "escape_done"
    /\ xml_s = <<"<", "b", ">", "&", "\"">>
    /\ out = <<"&", "l", "t", ";", "b", "&", "g", "t", ";", "&", "a", "m", "p", ";",
               "&", "q", "u", "o", "t", ";">>

\* the pieces render_inline wrote for the run: the output without the hard break
RunOutput == SelectSeq(out, LAMBDA piece : piece # Lit("<br/>"))

IsOpening(piece) ==
    \/ piece \in {Lit("<strong>"), Lit("<em>"), Lit("<s>"), Lit("<code>")}
    \/ "fmt" \in DOMAIN piece

ClosingOf(piece) ==
    CASE piece = Lit("<strong>") -> Lit("</strong>")
      [] piece = Lit("<em>") -> Lit("</em>")
      [] piece = Lit("<s>") -> Lit("</s>")
      [] piece = Lit("<code>") -> Lit("</code>")
      [] OTHER -> Lit("</span>")

\* a textStyle mark with a font size or a non-empty font family
HasFont(mark) ==
    /\ mark.type = "textStyle"
    /\ \/ mark.attrs.fontSize.some
       \/ mark.attrs.fontFamily.some /\ mark.attrs.fontFamily.val # <<>>

\* C17: for every run and every sequence of marks, the pieces of the run are
\* opening tags, the escaped text, and then the closing tags of exactly those
\* opening tags in reverse order; one span is opened per textStyle mark that
\* has a font size or a non-empty font family, and none for any other.
C17_MarksWellNested ==
    pc = "inline_done" =>
       LET o == RunOutput
           k == (Len(o) + 1) \div 2
           marks == MarksOf(items[1])
       IN  /\ Len(o) = 2 * k - 1
           /\ o[k] = Txt(EscapeXml(items[1].text))
           /\ \A i \in 1..(k - 1) : IsOpening(o[i]) /\ o[2 * k - i] = ClosingOf(o[i])
           /\ Cardinality({i \in 1..Len(o) : "fmt" \in DOMAIN o[i]})
                 = Cardinality({i \in 1..Len(marks) : HasFont(marks[i])})

\* a run marked bold, textStyle with a font size, and italic came out as
\* <strong><span ...><em>text</em></span></strong>
C17_Witness ==
    /\ pc = "inline_done"
    /\ MarksOf(items[1]) = <<Mark("bold"), StyleMark(Some(12), None), Mark("italic")>>
    /\ out = <<Lit("<strong>"),
               SpanOpen(<<[fmt |-> "font-size:{}pt;", arg |-> 12]>>),
               Lit("<em>"),
               Txt(<<"a", "&", "l", "t", ";">>),
               Lit("</em>"), Lit("</span>"), Lit("</strong>")>>

\* the heading render_blocks was given, bare or inside a blockquote, and the
\* piece written for it
GivenHeading == IF nodes[1].type = "heading" THEN nodes[1] ELSE nodes[1].content[1]
HeadingPiece == IF nodes[1].type = "heading" THEN out[1] ELSE out[2]

Min(a, b) == IF a <= b THEN a ELSE b
Max(a, b) == IF a >= b THEN a ELSE b

\* C18: a heading whose level attribute is the non-negative integer L is
\* rendered as <hN>...</hN> with N = min(max(L, 2), 6) in both tags.
C18_HeadingLevelClamped ==
    (/\ pc = "blocks_done"
     /\ nodes[1].type \in {"heading", "blockquote"}
     /\ "level" \in DOMAIN GivenHeading.attrs
     /\ GivenHeading.attrs.level \in Nat) =>
       /\ HeadingPiece.fmt = "<h{}{}>{}</h{}>\n"
       /\ HeadingPiece.args[1] = Min(Max(GivenHeading.attrs.level, 2), 6)
       /\ HeadingPiece.args[4] = HeadingPiece.args[1]

\* a heading of level 9 inside a blockquote was rendered as h6
C18_Witness ==
    /\ pc = "blocks_done"
    /\ nodes[1].type = "blockquote"
    /\ "level" \in DOMAIN GivenHeading.attrs
    /\ GivenHeading.attrs.level = 9
    /\ out[2].args[1] = 6
    /\ out[2].args[4] = 6

----------------------------------------------------------------------------
(* Claims about text_to_tiptap_json *)

\* the lines of the text, a line ending at each "\n"
TextLines == Split(text, <<"\n">>)

\* the chunks of lines[i..], given the lines `cur` gathered for the open chunk:
\* an empty line closes the chunk
RECURSIVE ChunksFrom(_, _)
ChunksFrom(i, cur) ==
    IF i > Len(TextLines) THEN <<cur>>
    ELSE IF TextLines[i] = <<>> THEN <<cur>> \o ChunksFrom(i + 1, <<>>)
    ELSE ChunksFrom(i + 1, Append(cur, TextLines[i]))

\* the trimmed texts of the chunks that have any, in input order
ChunkTexts ==
    LET all == ChunksFrom(1, <<>>)
        trimmed == [i \in 1..Len(all) |-> Trim(Join(all[i], <<"\n">>))]
    IN  SelectSeq(trimmed, LAMBDA t : t # <<>>)

----------------------------------------------------------------------------
(* Claims about json_to_rtf_content and export_project *)

\* the heading json_to_rtf_content was given as the only block of the document
RtfGivenHeading == doc.val.content[1]

\* the font size, in half-points, that the opening piece of a group sets
FontSizeSet(piece) ==
    IF "fmt" \in DOMAIN piece THEN piece.args[1]
    ELSE IF piece = Lit("{\\pard \\fs28 \\b ") THEN 28
    ELSE 0

IsBoldGroupOpen(piece) ==
    \/ "fmt" \in DOMAIN piece /\ piece.fmt = "{{\\pard \\fs{} \\b "
    \/ piece = Lit("{\\pard \\fs28 \\b ")

\* the font size the claim gives a heading
ClaimedFontSize(heading) ==
    IF "level" \notin DOMAIN heading.attrs THEN 20
    ELSE CASE heading.attrs.level = 2 -> 32
           [] heading.attrs.level = 3 -> 28
           [] heading.attrs.level = 4 -> 24
           [] OTHER -> 20

\* C15: every top-level heading is rendered as one bold group whose font size
\* is 32 for level 2, 28 for level 3, 24 for level 4, and 20 for every other
\* level and for a heading with no level attribute.
C15_HeadingFontSize ==
    (/\ pc = "rtf_content_done"
     /\ doc.some
     /\ "content" \in DOMAIN doc.val
     /\ RtfGivenHeading.type = "heading") =>
       /\ IsBoldGroupOpen(rtf_content[1])
       /\ rtf_content[Len(rtf_content)] = Lit("\\b0\\par}\n")
       /\ FontSizeSet(rtf_content[1]) = ClaimedFontSize(RtfGivenHeading)

\* the positions of ids_to_export whose chapter file exists: the rendered chapters
Rendered == {i \in 1..Len(ids_to_export) : ids_to_export[i] \in DOMAIN chapter_files}
PageBreaks == {i \in 1..Len(rtf_content) : rtf_content[i] = Lit("\\page\n")}

\* C14: in the document export_project produces, the number of page breaks is
\* the number of rendered chapters minus one whenever a chapter is rendered,
\* and no page break follows the last rendered chapter.
C14_PageBreaksBetweenChapters ==
    (pc = "export_done" /\ Rendered # {}) =>
       /\ Cardinality(PageBreaks) = Cardinality(Rendered) - 1
       /\ rtf_content[Len(rtf_content) - 1] # Lit("\\page\n")

\* the file name without the "_Chapters_" suffix, for some date
PlainFilenames ==
    {Replace(project_json.val.title, " ", <<"_">>) \o <<"_">> \o date \o <<".", "r", "t", "f">> :
        date \in Dates}
ExportedIds == {ids_to_export[i] : i \in 1..Len(ids_to_export)}
ProjectIds == {project_json.val.chapterOrder[i] : i \in 1..Len(project_json.val.chapterOrder)}

\* C16: the file name carries the "_Chapters_" suffix only when the exported
\* ids form a proper subset of chapterOrder, and carries none when every
\* chapter of the project is exported.
C16_SuffixOnlyForProperSubset ==
    pc = "export_done" =>
       /\ filename \notin PlainFilenames =>
             (ExportedIds \subseteq ProjectIds /\ ExportedIds # ProjectIds)
       /\ ExportedIds = ProjectIds => filename \in PlainFilenames

----------------------------------------------------------------------------
(* Claims about export_epub *)

EpubResolved == pc \in {"epub_loaded", "epub_images", "epub_chapters", "epub_tail", "epub_done"}

\* order restricted to the ids in the set `wanted`, in the order of `order`
RECURSIVE Restricted(_, _)
Restricted(order, wanted) ==
    IF order = <<>> THEN <<>>
    ELSE (IF Head(order) \in wanted THEN <<Head(order)>> ELSE <<>>)
            \o Restricted(Tail(order), wanted)

\* C11: for a non-empty request the exported sequence is chapterOrder
\* restricted to the requested ids, in chapterOrder order whatever the order
\* or repetition in the request, ids absent from chapterOrder dropped; for an
\* empty request it is the whole chapterOrder.
C11_ExportSequence ==
    EpubResolved =>
       /\ ids_to_export =
             IF chapter_ids = <<>> THEN project_json.val.chapterOrder
             ELSE Restricted(project_json.val.chapterOrder,
                             {chapter_ids[i] : i \in 1..Len(chapter_ids)})
       /\ Len(chapters) = Len(ids_to_export)

\* chapters 2 and 1 were requested, in that order, from the project whose
\* order is 1, 2, 3: the archive was written for 1, 2
C11_Witness ==
    /\ pc = "epub_done"
    /\ project_json.val.chapterOrder = <<1, 2, 3>>
    /\ chapter_ids = <<2, 1>>
    /\ ids_to_export = <<1, 2>>

\* the referenced image names whose file exists in assets, in the order of
\* their first reference
ExistingImages == SelectSeq(all_image_names, LAMBDA name : name \in assets)

EntryNames == [i \in 1..Len(zip) |-> zip[i].name]

\* C12: in every archive export_epub completes, the first entry is named
\* mimetype, is stored uncompressed and holds exactly application/epub+zip;
\* the other entries follow in the order container descriptor, stylesheet,
\* referenced images, one document per exported chapter in export order,
\* navigation document, toc.ncx, content.opf, and each of them is compressed.
C12_ArchiveLayout ==
    pc = "epub_done" =>
       /\ zip[1] = [name |-> Lit("mimetype"), method |-> "Stored",
                    data |-> <<Lit("application/epub+zip")>>]
       /\ \A i \in 2..Len(zip) : zip[i].method = "Deflated"
       /\ EntryNames =
             <<Lit("mimetype"), Lit("META-INF/container.xml"), Lit("OEBPS/style.css")>>
                \o [i \in 1..Len(ExistingImages) |->
                       Fmt("OEBPS/images/{}", <<ExistingImages[i]>>)]
                \o [i \in 1..Len(ids_to_export) |->
                       Fmt("OEBPS/chapters/ch{:03}.xhtml", <<i>>)]
                \o <<Lit("OEBPS/nav.xhtml"), Lit("OEBPS/toc.ncx"), Lit("OEBPS/content.opf")>>
       /\ \A i \in 1..Len(ids_to_export) :
             zip[3 + Len(ExistingImages) + i].data =
                ChapterToXhtml(chapters[i].title, chapters[i].content)

\* an archive of ten entries: two images, then the chapters 1 and 2
C12_Witness ==
    /\ pc = "epub_done"
    /\ ids_to_export = <<1, 2>>
    /\ Len(zip) = 10
    /\ zip[4].name = Fmt("OEBPS/images/{}", <<<<"a", ".", "p", "n", "g">>>>)
    /\ zip[5].name = Fmt("OEBPS/images/{}", <<<<"b", ".", "j", "p", "g">>>>)
    /\ zip[6].name = Fmt("OEBPS/chapters/ch{:03}.xhtml", <<1>>)

\* the package document of the finished archive, and its manifest
Opf == zip[Len(zip)].data[1]
ManifestImages ==
    {name \in ImageNames :
        \E i \in 1..Len(Opf.args.image_manifest) :
           Opf.args.image_manifest[i].args[2] = EscapeXml(name)}
ArchiveImages ==
    {name \in ImageNames :
        \E i \in 1..Len(zip) : zip[i].name = Fmt("OEBPS/images/{}", <<name>>)}
ReferencedImages == {all_image_names[i] : i \in 1..Len(all_image_names)}

\* C13: the manifest holds exactly one chapter item per exported chapter and
\* exactly one image item per distinct referenced image whose file exists in
\* assets; an image missing from assets has neither an entry nor an item, so
\* every image item points at an entry of the archive.
C13_ManifestMatchesArchive ==
    pc = "epub_done" =>
       /\ Opf.args.manifest = [i \in 1..Len(ids_to_export) |-> ChapterItem(i)]
       /\ ManifestImages = ReferencedImages \cap assets
       /\ Len(Opf.args.image_manifest) = Cardinality(ManifestImages)
       /\ ManifestImages \subseteq ArchiveImages

----------------------------------------------------------------------------
(* Claims about the break events of markdown_to_tiptap_json *)

BreakStep ==
    /\ pc = "md_loop"
    /\ event'.kind \in {"SoftBreak", "HardBreak"}
    /\ nEvents' = nEvents + 1

\* the open paragraph holds at least one run
ParagraphHoldsRun == current_paragraph.some /\ current_paragraph.val # <<>>

\* C26: a soft-break event and a hard-break event have the same effect: when
\* a paragraph is open and holds at least one run, exactly one space is
\* appended to the text of its last run and no run is added or removed; the
\* heading buffer, the code-block buffer, the list stack and the document
\* root are unchanged.
C26_BreaksAppendOneSpace ==
    [][BreakStep =>
         /\ ParagraphHoldsRun =>
               LET before == current_paragraph.val
                   after == current_paragraph'.val
                   n == Len(before)
               IN  /\ current_paragraph'.some
                   /\ Len(after) = n
                   /\ \A i \in 1..(n - 1) : after[i] = before[i]
                   /\ after[n].text = before[n].text \o <<" ">>
                   /\ after[n].type = before[n].type
                   /\ MarksOf(after[n]) = MarksOf(before[n])
         /\ UNCHANGED <<heading_content, code_block_content, list_stack, content>>]_vars

C26_Witness ==
    /\ event.kind = "HardBreak"
    /\ current_paragraph.some
    /\ Len(current_paragraph.val) = 2
    /\ current_paragraph.val[2].text = LeafText \o <<" ">>

----------------------------------------------------------------------------
(* Claims about the lists of render_blocks *)

\* the inline content of the direct paragraph children among `children`
RECURSIVE ParagraphsInline(_)
ParagraphsInline(children) ==
    IF children = <<>> THEN <<>>
    ELSE (IF Head(children).type = "paragraph" /\ "content" \in DOMAIN Head(children)
          THEN RenderInline(Head(children).content) ELSE <<>>)
            \o ParagraphsInline(Tail(children))

\* one <li> per item, holding the inline content of its paragraph children
RECURSIVE ItemsOfParagraphs(_)
ItemsOfParagraphs(list_items) ==
    IF list_items = <<>> THEN <<>>
    ELSE <<Lit("<li>")>>
            \o (IF "content" \in DOMAIN Head(list_items)
                THEN ParagraphsInline(Head(list_items).content) ELSE <<>>)
            \o <<Lit("</li>\n")>>
            \o ItemsOfParagraphs(Tail(list_items))

GivenList == nodes # <<>> /\ nodes[1].type \in {"bulletList", "orderedList"}

\* C27: a bullet or ordered list is rendered as one <li> per list item, and
\* each <li> holds the inline content of the item's direct paragraph children
\* only: the text of a heading, code block, blockquote or nested list child
\* is not in it.
C27_ListItemsOfParagraphsOnly ==
    (pc = "blocks_done" /\ GivenList) =>
       /\ Len(out) >= 2
       /\ SubSeq(out, 2, Len(out) - 1) = ItemsOfParagraphs(nodes[1].content)

----------------------------------------------------------------------------
(* Claims about failed and repeated calls of import_chapters *)

\* the first id the running call gives out, and the ids it has given out
CallStart ==
    MaxOr0((IF project_json.some THEN project_json.val ELSE Project(<<>>, None)).chapterOrder) + 1
CallIds == CallStart..(next_id - 1)

\* C24: while import_chapters runs, and when it fails on reading or writing
\* for a later file, every chapter file the call has written so far stays on
\* disk as written and project.json (chapterOrder and chapterTitles) is as it
\* was before the call.
C24_FailureKeepsFilesAndProject ==
    [][(pc = "import_files" /\ result' # "Ok") =>
          /\ project_json' = project_json
          /\ \A id \in CallIds :
                /\ id \in DOMAIN chapter_files
                /\ id \in DOMAIN chapter_files'
                /\ chapter_files'[id] = chapter_files[id]]_vars

\* the first call on an empty project failed after it had written a chapter
C24_Witness ==
    /\ pc = "idle"
    /\ result = "Err"
    /\ n_calls = 1
    /\ project_json.val.chapterOrder = <<>>
    /\ 1 \in DOMAIN chapter_files

\* C29: across import_chapters calls (successful or failed) and
\* delete_chapter calls, an import never writes to a chapter file path that
\* already exists: the ids a step assigns are not ids of chapter files on disk.
C29_NeverWritesExistingFile ==
    [][pc = "import_files" =>
          \A i \in 1..Len(last_assigned') : last_assigned'[i] \notin DOMAIN chapter_files]_vars

----------------------------------------------------------------------------
(* Claims about the destination file of the exports *)

\* an image the export is about to read from assets
ReadsAnImage == \E i \in 1..Len(all_image_names) : all_image_names[i] \in assets

\* C23: the destination file of an export is created and written only after
\* every exported chapter and every referenced asset has been read, so a
\* failure while the chapters are loaded or while an image is read leaves no
\* destination file created or changed.
C23_NoFileBeforeEverythingIsRead ==
    [][(/\ pc' = "epub_err"
        /\ \/ pc = "epub_call"
           \/ pc = "epub_images" /\ ReadsAnImage) => export_file' = None]_vars

----------------------------------------------------------------------------
(* Claims about the commands that read and write the project directory *)

\* the project directory on disk
Disk == <<project_json, chapter_files, dirs>>

\* C21: when save_chapter is called with content that is not valid JSON it
\* returns an error and the project's on-disk state is what it was before the
\* call: no chapter file is created or modified and no directory is created.
C21_InvalidContentChangesNothing ==
    [][(pc' = "save_chapter" /\ n_calls' = n_calls + 1 /\ json_content' = Unparsable) =>
          result' = "Err" /\ Disk' = Disk]_vars

\* the command read project.json and found text that is no JSON
ReadMalformedProject ==
    /\ n_calls' = n_calls + 1
    /\ pc' \in {"load_project", "save_project", "update_export_dir", "rename_chapter"}
    /\ project_json = Some(Unparsable)

\* load_project read a chapter file that is no JSON
LoadedMalformedChapter ==
    /\ n_calls' = n_calls + 1
    /\ pc' = "load_project"
    /\ project_json.some
    /\ IsObject(project_json.val)
    /\ ProjectFields \subseteq DOMAIN project_json.val
    /\ \E id \in DOMAIN chapter_files : chapter_files[id] = Unparsable

\* C22: an operation that reads a persisted project record returns an error
\* and writes nothing when that record is malformed JSON; load_project alone
\* treats an unparsable chapter file as a chapter with absent content and
\* still succeeds.
C22_MalformedRecordAborts ==
    [][/\ ReadMalformedProject => result' = "Err" /\ Disk' = Disk
       /\ LoadedMalformedChapter =>
             /\ result' = "Ok"
             /\ Disk' = Disk
             /\ \A i \in 1..Len(chapters') :
                   chapter_files[chapters'[i].id] = Unparsable => ~chapters'[i].content.some]_vars

\* save_project was given an object while project.json held an object
SavedObject ==
    /\ n_calls' = n_calls + 1
    /\ pc' = "save_project"
    /\ IsObject(project_data'.val)
    /\ project_json.some
    /\ IsObject(project_json.val)

\* C28: save_project, given an object, leaves every key of the existing
\* project.json that is absent from the submitted data with its previous
\* value and sets each submitted key to the submitted value; so chapterTitles
\* and exportDir survive a save_project whose data omits them.
C28_SaveProjectMerges ==
    [][SavedObject =>
          LET data == project_data'.val
              before == project_json.val
              after == project_json'.val
          IN  /\ project_json'.some
              /\ DOMAIN after = DOMAIN before \cup DOMAIN data
              /\ \A key \in DOMAIN data : after[key] = data[key]
              /\ \A key \in DOMAIN before \ DOMAIN data : after[key] = before[key]]_vars

\* a renamed title and a recorded export directory are still there after a
\* save_project that changed the title and omitted both keys
C28_Witness ==
    /\ pc = "save_project"
    /\ project_data = Some([title |-> <<"U">>])
    /\ project_json.some
    /\ IsObject(project_json.val)
    /\ DOMAIN project_json.val = {"title", "author", "chapterOrder", "chapterTitles", "exportDir"}
    /\ project_json.val.title = <<"U">>
    /\ project_json.val.exportDir = <<"d">>
    /\ 2 \in DOMAIN project_json.val.chapterTitles
    /\ project_json.val.chapterTitles[2] = <<"N">>

----------------------------------------------------------------------------
(* Claims about copy_asset_and_encode *)

\* the call stored the image
Stored == pc' = "copy_asset" /\ n_calls' = n_calls + 1 /\ result' = "Ok"

\* C25: no call of copy_asset_and_encode overwrites a file already in the
\* assets directory: the stored name is the sanitized name when no file of
\* that name exists, and otherwise the sanitized stem followed by _n and the
\* extension for the smallest n >= 1 for which no such file exists.
C25_NeverOverwritesAnAsset ==
    [][Stored =>
          LET safe == SafeName(raw_name')
          IN  /\ final_name' \notin assets
              /\ assets' = assets \cup {final_name'}
              /\ IF safe \notin assets THEN final_name' = safe
                 ELSE \E n \in 1..(Cardinality(assets) + 1) :
                         /\ final_name' = Numbered(safe, n)
                         /\ \A k \in 1..(n - 1) : Numbered(safe, k) \in assets]_vars

\* a.p was stored as a_2.p, a.p and a_1.p being in use
C25_Witness ==
    /\ pc = "copy_asset"
    /\ result = "Ok"
    /\ raw_name = <<"a", ".", "p">>
    /\ final_name = <<"a", "_", "2", ".", "p">>
    /\ {<<"a", ".", "p">>, <<"a", "_", "1", ".", "p">>} \subseteq assets

----------------------------------------------------------------------------
(* Claims about overlapping invocations of import_chapters *)

BothReturnedOk == \A c \in Invocations : calls[c].pc = "done"
\* the invocation that wrote project.json last, and the one before it
Later == CHOOSE c \in Invocations : calls[c].finished = 2
Earlier == Other(Later)
\* both read project.json before either wrote it
Overlapped == \A c \in Invocations : ~calls[c].after_other

\* the ids the invocation gave to its chapters, in order and as a set
IdSeq(c) ==
    [i \in 1..Len(calls[c].imported_chapters) |-> calls[c].imported_chapters[i].id]
Ids(c) == Range(IdSeq(c))
\* chapterOrder as the invocation read it
StartOrder(c) ==
    SubSeq(calls[c].project_data.val.chapterOrder, 1,
           Len(calls[c].project_data.val.chapterOrder) - Len(IdSeq(c)))
\* the chapterTitles object of project.json
TitlesNow ==
    IF project_json.val.chapterTitles.some THEN project_json.val.chapterTitles.val ELSE <<>>
HoldsEntries(c) ==
    \A i \in 1..Len(calls[c].imported_chapters) :
       LET ch == calls[c].imported_chapters[i]
       IN  /\ ch.id \in Range(project_json.val.chapterOrder)
           /\ ch.id \in DOMAIN TitlesNow
           /\ TitlesNow[ch.id] = ch.title

\* C30: no lock is taken on project.json.  When two invocations of
\* import_chapters both read project.json before either writes it, they give
\* the same chapter ids to their chapters and the later write discards the
\* earlier invocation's chapterOrder and chapterTitles entries; when the
\* invocations are serialized, their ids are disjoint and project.json holds
\* the entries of both.
C30_OverlapLosesSerialKeeps ==
    BothReturnedOk =>
       IF Overlapped
       THEN /\ (Ids(1) # {} /\ Ids(2) # {}) => Ids(1) \cap Ids(2) # {}
            /\ project_json.val.chapterOrder = StartOrder(Earlier) \o IdSeq(Later)
            /\ \A id \in Ids(Earlier) \ Ids(Later) : id \notin DOMAIN TitlesNow
            /\ HoldsEntries(Later)
       ELSE /\ Ids(1) \cap Ids(2) = {}
            /\ project_json.val.chapterOrder
                  = StartOrder(Earlier) \o IdSeq(Earlier) \o IdSeq(Later)
            /\ HoldsEntries(1)
            /\ HoldsEntries(2)

\* two overlapping invocations gave out the same id, and an entry of the
\* one that wrote first is gone
C30_Witness ==
    /\ BothReturnedOk
    /\ Overlapped
    /\ Ids(1) \cap Ids(2) # {}
    /\ Ids(Earlier) \ Ids(Later) # {}
    /\ ~HoldsEntries(Earlier)

====
